---------------------------- MODULE Spec2Model ----------------------------
(***************************************************************************)
(* State-machine model of the spectrum visualizer: the BaseVisualizer      *)
(* frame clock and settings store, the AudioProcessor source bindings,     *)
(* the renderers' particle pools, bass-onset detection and bar smoothing.  *)
(*                                                                         *)
(* Units.  Wall-clock time (performance.now()) is in milliseconds.         *)
(* sensitivity and animationSpeed are in hundredths (1.0 is 100), as the   *)
(* settings panel delivers them (slider value / 100).  Simulation time     *)
(* this.time is therefore in units of 1e-5 s (milliseconds x hundredths).  *)
(***************************************************************************)
EXTENDS Integers, Sequences, FiniteSets, TLC

VARIABLES
    \* ---- BaseVisualizer, one entry per visualizer instance
    isRunning,        \* this.isRunning
    animationId,      \* this.animationId (0 models null)
    time,             \* this.time
    lastFrameTime,    \* this.lastFrameTime
    settings,         \* this.settings (the clamped numeric keys and barSpacing)
    resizeListener,   \* window has this.handleResize registered for "resize"
    \* ---- browser
    now,              \* performance.now()
    rafQueue,         \* frame callbacks requested and neither run nor cancelled
    ctx,              \* the 2D context's current drawing state
    ctxStack,         \* the 2D context's stack of saved drawing states
    \* ---- observation of the last step (history, not program state)
    deltaTime,        \* deltaTime computed by the last tick
    tickOf,           \* the visualizer whose tick body the last step ran, or "none"
    lastTickAt,       \* wall-clock time of the last tick body (-1: none yet)
    lastStartAt,      \* wall-clock time of the last start() that started the loop (-1: none)
    stopped,          \* stop()/destroy() returned and start() was not called since
    destroyed,        \* destroy() was called
    drawResult,       \* outcome of the draw() of the last step: none / ok / threw
    lastWrite,        \* the last updateSettings call: <<visualizer, newSettings>>
    \* ---- AudioProcessor
    audioContext,     \* this.audioContext: "none" (null) or the context's state
    audioElement,     \* this.audioElement (0 models null, else the element)
    mediaStream,      \* this.mediaStream (0 models null, else the stream)
    source,           \* this.source: the node, [kind, id]; kind "none" is null
    currentSource,    \* this.currentSource: "none" (null), "file", "buffer", "mic"
    isPlaying,        \* this.isPlaying
    isMicActive,      \* this.isMicActive
    analyserInputs,   \* source nodes connected to this.analyser
    analyserOutputs,  \* nodes this.analyser is connected to
    recordingDestination, \* this._recordingDestination (0 models unset)
    gainValue,        \* this.gainNode.gain.value, hundredths
    elementVolume,    \* this.audioElement.volume, hundredths (100 with no element)
    elementTime,      \* this.audioElement.currentTime, percent of the duration
    \* ---- browser media objects
    playingElements,  \* audio elements that are playing (not paused)
    liveTracks,       \* microphone streams whose tracks are live (not stopped)
    startedBuffers,   \* buffer source nodes started and not stopped
    openContexts,     \* audio contexts created and not closed
    destinations,     \* media stream destinations created so far
    ops,              \* async AudioProcessor calls suspended at an await
    calls,            \* attach calls made so far
    apDestroyed,      \* AudioProcessor.destroy() was called
    lastCall,         \* the AudioProcessor method the last step called, or "none"
    raised,           \* that call threw out of the method
    \* ---- audio analysis
    audioSensitivity, \* AudioProcessor.settings.sensitivity, hundredths
    frequencyData,    \* this.frequencyData, as getFrequencyData last left it
    bandsResult,      \* what getFrequencyBands last returned
    \* ---- App and renderers
    currentVisualization, \* App.currentVisualization
    revision,         \* which revision of a twice-defined class is loaded
    particles,        \* this.particles.length of the renderers that have one
    ringParticles,    \* ParticlesVisualizer.ringParticles.length
    orbitParticles,   \* CircularVisualizer.orbitParticles.length
    clouds,           \* CloudVisualizer.clouds.length
    lastBassHit,      \* ParticlesVisualizer.lastBassHit, simulation time
    onsetAt,          \* wall-clock time of the last bass onset, -1 if none
    onsetGap,         \* wall-clock time between the last two onsets, -1 if none
    smoothedData,     \* BarsVisualizer.smoothedData, thousandths
    peakData,         \* BarsVisualizer.peakData, thousandths
    peakVelocity,     \* BarsVisualizer.peakVelocity, thousandths
    observed,         \* ticks and bass onsets counted over a scenario's length
    twin,             \* pool of a second instance given the same frame, -1: none
    trail,            \* the last writes and frames of an observed run, oldest first
    \* ---- canvas, container and what the renderers derive from their size
    container,        \* the canvas's parent: client and offset width and height
    canvasSize,       \* canvas.width and canvas.height
    size,             \* this.width and this.height of the visualizers
    sized,            \* the container as the last handleResize found it
    flowGrid,         \* columns and rows of the flow fields kept
    terrain,          \* TerrainVisualizer.terrain, thousandths, row z at z + 1
    show,             \* App.isPlaying, currentSource, audioLoaded, pending awaits
    \* ---- App, palettes, exporter, analyser size
    theme,            \* this.theme of each visualizer
    currentTheme,     \* App.currentTheme
    visualizerSettings, \* App.visualizerSettings, the central settings
    appReady,         \* App.init() has completed
    exportFormat,     \* VideoExporter.settings.format
    mimeType,         \* the last getSupportedMimeType call: format and result
    recorderTypes,    \* the types MediaRecorder.isTypeSupported accepts
    fftSize,          \* analyser.fftSize
    processed,        \* the last getProcessedData call: inputs and result
    horizon,          \* wall-clock time up to which the run is followed
    bucket,           \* one bucket's smoothing under an input held constant
    capture           \* the exporter, its recorder, the App's export timers

clockVars == <<isRunning, animationId, time, lastFrameTime, resizeListener,
               now, rafQueue, ctx, ctxStack, deltaTime, tickOf,
               lastTickAt, lastStartAt, stopped, destroyed, drawResult>>

(* Variables of the other parts of the model, which no clock action touches. *)
audioVars == <<audioContext, audioElement, mediaStream, source, currentSource,
               isPlaying, isMicActive, analyserInputs, analyserOutputs,
               recordingDestination, playingElements, liveTracks,
               startedBuffers, openContexts, destinations, ops, calls,
               apDestroyed, gainValue, elementVolume, elementTime, lastCall,
               raised>>

(* Variables of the App's stores, the exporter and the analyser size. *)
appVars == <<theme, currentTheme, visualizerSettings, appReady, exportFormat,
             mimeType, recorderTypes, fftSize, processed, horizon, bucket, capture>>

beyondClock == <<lastWrite, audioVars, appVars>>

(* Variables of the audio analysis and of the renderers' draw(). *)
rendererVars == <<audioSensitivity, frequencyData, bandsResult, revision,
                  particles, ringParticles, orbitParticles, clouds,
                  lastBassHit, onsetAt, onsetGap, smoothedData, peakData,
                  peakVelocity>>

(* What is recorded about the frames drawn. *)
observerVars == <<observed, twin, trail>>

canvasVars == <<container, canvasSize, size, sized, flowGrid, terrain>>

surfaceVars == <<canvasVars, show>>

frameVars == <<currentVisualization, rendererVars, observerVars, surfaceVars>>

vars == <<clockVars, settings, beyondClock, frameVars>>

----------------------------------------------------------------------------
(* Bounds of the model *)

MaxNow == 200          \* wall-clock horizon, ms
MaxStack == 3          \* saved-state stack depth explored
MaxCalls == 3          \* attach calls (loadFile, loadBuffer, startMicrophone) made
MaxTaps == 2           \* getAudioStreamForRecording calls made
Bins == 64             \* analyser.frequencyBinCount (fftSize 128)

(* Program constants *)

DeltaCap == 100        \* Math.min(..., 0.1) s, in ms
SensitivityMin == 10   \* 0.1
SensitivityMax == 500  \* 5.0
SpeedMin == 10         \* 0.1
SpeedMax == 500        \* 5.0
BarCountMin == 8
BarCountMax == 256
FallbackWidth == 800
FallbackHeight == 600
FlowResolution == 20
TerrainWidth == 60
TerrainDepth == 40
MaxTerrainHeight == 200000    \* 200
TerrainSensitivityMax == 300  \* 3.0
MaxParticles == 600          \* particle field, this.maxParticles
BassThreshold == 160         \* particle field, this.bassThreshold
Refractory == 12000          \* 0.12 s of simulation time
EarlierMaxParticles == 500   \* the same three in the earlier revision
EarlierBassThreshold == 180
EarlierRefractory == 15000   \* 0.15 s of simulation time
MaxRingParticles == 40
MaxBurstParticles == 80      \* circular renderer, this.particles
MaxOrbitParticles == 30
MaxClouds == 30
MaxBarParticles == 100       \* bar renderer, this.particles

Visualizers == {"bars", "waveform", "circular", "particles", "cloud",
                "psychedelic", "3d"}

Min(a, b) == IF a < b THEN a ELSE b
Max(a, b) == IF a > b THEN a ELSE b

----------------------------------------------------------------------------
(* BaseVisualizer.clamp *)
clamp_noUpper(value, min, max) == Max(min, value)

clamp(value, min, max) == Max(min, Min(max, value))

Keys == {"sensitivity", "animationSpeed", "barCount", "barSpacing"}

(* The settings object of a freshly constructed visualizer. *)
DefaultSettings ==
    [sensitivity |-> 100, animationSpeed |-> 100, barCount |-> 64,
     barSpacing |-> 2]

(* newSettings after updateSettings has clamped it in place: a partial     *)
(* settings object is a function from a subset of Keys.                    *)
ClampInPlace(newSettings) ==
    [k \in DOMAIN newSettings |->
        CASE k = "sensitivity" ->
                clamp(newSettings[k], SensitivityMin, SensitivityMax)
          [] k = "animationSpeed" ->
                clamp(newSettings[k], SpeedMin, SpeedMax)
          [] k = "barCount" ->
                clamp(newSettings[k], BarCountMin, BarCountMax)
          [] OTHER -> newSettings[k]]

(* Object.assign(target, source) *)
ObjectAssign(target, src) ==
    [k \in DOMAIN target |-> IF k \in DOMAIN src THEN src[k] ELSE target[k]]

(* BaseVisualizer.updateSettings: this.settings afterwards. *)
updateSettings(old, newSettings) == ObjectAssign(old, ClampInPlace(newSettings))

----------------------------------------------------------------------------
(* The 2D context *)

CleanCtx == [transform |-> "identity", globalAlpha |-> 100,
             globalCompositeOperation |-> "source-over"]

CtxStates == [transform : {"identity", "other"}, globalAlpha : {100, 30},
              globalCompositeOperation : {"source-over", "lighter"}]

(* ctx.restore(): pops the top saved state; a no-op on an empty stack. *)
RestoreCtx(cur, stack) ==
    IF stack = <<>> THEN [ctx |-> cur, stack |-> stack]
    ELSE [ctx |-> stack[Len(stack)], stack |-> SubSeq(stack, 1, Len(stack) - 1)]

(* requestAnimationFrame: a handle that no queued callback uses. *)
FreshId(q) == CHOOSE i \in 1..(Cardinality(q) + 1) : \A c \in q : c.id # i

(* deltaTime of a tick, animate() line 350 *)
DeltaTime_noCap(t, last) == t - last

DeltaTime(t, last) == Min(t - last, DeltaCap)

(* The catch block of animate(): restore, then reset the three fields. *)
CatchReset_keepsAlpha(cur, stack) ==
    LET r == RestoreCtx(cur, stack)
    IN  [ctx |-> [r.ctx EXCEPT !.transform = "identity",
                               !.globalCompositeOperation = "source-over"],
         stack |-> r.stack]

CatchReset(cur, stack) ==
    LET r == RestoreCtx(cur, stack)
    IN  [ctx |-> CleanCtx, stack |-> r.stack]

(* The body of animate() past its running guard, for visualizer v at      *)
(* wall-clock time t with lastFrameTime last and the frame queue q.        *)
(* draw() is a subclass method: o = <<outcome, dirty, open>> says that it  *)
(* ends with the context in state dirty, either returning (its helpers'    *)
(* save/restore paired) or throwing with the saved states open on top of   *)
(* the one animate() pushed.                                               *)
AnimateBody(v, t, last, q, o) ==
    LET dt == DeltaTime(t, last)
        pushed == Append(ctxStack, ctx)
        after == IF o[1] = "ok"
                 THEN RestoreCtx(o[2], pushed)
                 ELSE CatchReset(o[2], pushed \o o[3])
        id == FreshId(q)
    IN  /\ Len(ctxStack) + Len(o[3]) < MaxStack
        /\ deltaTime' = dt
        /\ lastFrameTime' = [lastFrameTime EXCEPT ![v] = t]
        /\ time' = [time EXCEPT ![v] = @ + dt * settings[v].animationSpeed]
        /\ ctx' = after.ctx
        /\ ctxStack' = after.stack
        /\ drawResult' = IF o[1] = "ok" THEN "ok" ELSE "threw"
        /\ animationId' = [animationId EXCEPT ![v] = id]
        /\ rafQueue' = q \cup {[id |-> id, viz |-> v]}
        /\ tickOf' = v
        /\ lastTickAt' = [lastTickAt EXCEPT ![v] = t]

DrawOutcomes ==
    {<<"ok", d, <<>>>> : d \in CtxStates} \cup
    {<<"throw", d, o>> : d \in CtxStates,
                         o \in {<<>>} \cup {<<s>> : s \in CtxStates}}

(* BaseVisualizer.start *)
start(v, o) ==
    /\ IF isRunning[v]
       THEN /\ UNCHANGED <<isRunning, animationId, time, lastFrameTime,
                           rafQueue, ctx, ctxStack, deltaTime, lastTickAt,
                           lastStartAt>>
            /\ drawResult' = "none" /\ tickOf' = "none"
       ELSE /\ isRunning' = [isRunning EXCEPT ![v] = TRUE]
            /\ lastStartAt' = [lastStartAt EXCEPT ![v] = now]
            /\ AnimateBody(v, now, now, rafQueue, o)
    /\ stopped' = [stopped EXCEPT ![v] = FALSE]
    /\ UNCHANGED <<settings, resizeListener, now, destroyed, beyondClock>>

(* stop() as far as the visualizer's own fields and the frame queue go. *)
StopEffect_forgets(v) ==
    /\ animationId' = [animationId EXCEPT ![v] = 0]
    /\ UNCHANGED <<isRunning, rafQueue>>

StopEffect(v) ==
    /\ isRunning' = [isRunning EXCEPT ![v] = FALSE]
    /\ IF animationId[v] # 0
       THEN /\ rafQueue' = {c \in rafQueue : c.id # animationId[v]}
            /\ animationId' = [animationId EXCEPT ![v] = 0]
       ELSE UNCHANGED <<rafQueue, animationId>>

(* BaseVisualizer.stop *)
stop(v) ==
    /\ StopEffect(v)
    /\ stopped' = [stopped EXCEPT ![v] = TRUE]
    /\ drawResult' = "none" /\ tickOf' = "none"
    /\ UNCHANGED <<settings, time, lastFrameTime, resizeListener, now, ctx,
                   ctxStack, deltaTime, lastTickAt, lastStartAt,
                   destroyed, beyondClock>>

(* BaseVisualizer.destroy *)
destroy(v) ==
    /\ StopEffect(v)
    /\ resizeListener' = [resizeListener EXCEPT ![v] = FALSE]
    /\ stopped' = [stopped EXCEPT ![v] = TRUE]
    /\ destroyed' = [destroyed EXCEPT ![v] = TRUE]
    /\ drawResult' = "none" /\ tickOf' = "none"
    /\ UNCHANGED <<settings, time, lastFrameTime, now, ctx, ctxStack,
                   deltaTime, lastTickAt, lastStartAt, beyondClock>>

(* The browser runs a queued frame callback, () => this.animate(), at the  *)
(* next repaint, d ms later.                                               *)
animate(c, d, o) ==
    /\ c \in rafQueue
    /\ now + d <= horizon
    /\ now' = now + d
    /\ IF ~isRunning[c.viz]
       THEN /\ rafQueue' = rafQueue \ {c}
            /\ drawResult' = "none" /\ tickOf' = "none"
            /\ UNCHANGED <<animationId, time, lastFrameTime, ctx, ctxStack,
                           deltaTime, lastTickAt>>
       ELSE AnimateBody(c.viz, now', lastFrameTime[c.viz], rafQueue \ {c}, o)
    /\ UNCHANGED <<isRunning, settings, resizeListener, lastStartAt, stopped,
                   destroyed, beyondClock>>

(* Wall-clock time passes with no frame callback run: the visualizer is    *)
(* stopped, or the window stalls.                                          *)
Elapse(d) ==
    /\ now + d <= horizon
    /\ now' = now + d
    /\ drawResult' = "none" /\ tickOf' = "none"
    /\ UNCHANGED <<isRunning, animationId, time, lastFrameTime, settings,
                   resizeListener, rafQueue, ctx, ctxStack, deltaTime,
                   lastTickAt, lastStartAt, stopped, destroyed, beyondClock>>

(* v.updateSettings(newSettings), called by the App's settings handlers    *)
(* and by setVisualization.                                                *)
SettingsWrite(v, newSettings) ==
    /\ settings' = [settings EXCEPT ![v] = updateSettings(@, newSettings)]
    /\ lastWrite' = <<v, newSettings>>
    /\ drawResult' = "none" /\ tickOf' = "none"
    /\ UNCHANGED <<isRunning, animationId, time, lastFrameTime,
                   resizeListener, now, rafQueue, ctx, ctxStack, deltaTime,
                   lastTickAt, lastStartAt, stopped, destroyed, audioVars,
                   appVars>>

-----------------------------------------------------------------------------
(* Audio analysis.  A spectrum is a sequence of byte values, one per bin.  *)

Level(x) == [i \in 1..Bins |-> x]

(* Three plateaus: low, middle and high bins at l, m and h. *)
Shape(l, m, h) ==
    [i \in 1..Bins |-> IF 3 * i <= Bins THEN l
                       ELSE IF 3 * i <= 2 * Bins THEN m ELSE h]

RECURSIVE SumRange(_, _, _)
(* data[from] + ... + data[to - 1], bins counted from 0 as in the code. *)
SumRange(data, from, to) ==
    IF from >= to THEN 0
    ELSE IF to = from + 1 THEN data[to]
         ELSE SumRange(data, from, (from + to) \div 2)
                 + SumRange(data, (from + to) \div 2, to)

(* AudioProcessor.getFrequencyData: the analyser's bytes raw, scaled by    *)
(* the sensitivity when it is not 1.0 and stored into the Uint8Array,      *)
(* which drops the fraction.                                               *)
getFrequencyData(raw, sensitivity) ==
    IF sensitivity = 100
    THEN raw
    ELSE [i \in 1..Len(raw) |-> Min(255, (raw[i] * sensitivity) \div 100)]

(* AudioProcessor.getFrequencyBands.  The three quotients are kept exact:  *)
(* the band returned is the field divided by third.                        *)
getFrequencyBands(data) ==
    LET third == Len(data) \div 3
    IN  [bass |-> SumRange(data, 0, third),
         mid |-> SumRange(data, third, third * 2),
         treble |-> SumRange(data, third * 2, Len(data)),
         third |-> third]

(* Stands for the value NaN; every number of the model is 0 or more. *)
NaN == -1

(* BaseVisualizer.getProcessedData, in thousandths: the mean of each bar's *)
(* samplesPerBar bins times the visualizer's sensitivity.  With more bars  *)
(* than bins samplesPerBar is 0, the inner loop adds nothing and every bar *)
(* is 0 / 0.                                                               *)
getProcessedData(data, count, sensitivity) ==
    LET samplesPerBar == Len(data) \div count
    IN  [i \in 1..count |->
            IF samplesPerBar = 0
            THEN NaN
            ELSE (SumRange(data, (i - 1) * samplesPerBar, i * samplesPerBar)
                    * sensitivity * 10) \div samplesPerBar]

(* AudioProcessor.updateSettings({ fftSize }): the analyser is resized and *)
(* frequencyData replaced by a zeroed array of frequencyBinCount bytes.    *)
SetFftSize(n) ==
    /\ audioContext # "none"
    /\ fftSize' = n
    /\ frequencyData' = [i \in 1..(n \div 2) |-> 0]
    /\ UNCHANGED <<clockVars, settings, lastWrite, audioVars, theme,
                   currentTheme, visualizerSettings, appReady, exportFormat,
                   mimeType, recorderTypes, processed, horizon, bucket, capture,
                   audioSensitivity, bandsResult, currentVisualization,
                   revision, particles, ringParticles, orbitParticles, clouds,
                   lastBassHit, onsetAt, onsetGap, smoothedData, peakData,
                   peakVelocity, observerVars,
                   surfaceVars>>

(* A call of getProcessedData() by visualizer v while the analyser holds   *)
(* the spectrum raw.                                                       *)
ReadProcessed(v, raw) ==
    LET data == getFrequencyData(raw, audioSensitivity)
        count == settings[v].barCount
    IN  /\ Len(raw) = fftSize \div 2
        /\ frequencyData' = data
        /\ processed' = [fftSize |-> fftSize, data |-> data, count |-> count,
                         sensitivity |-> settings[v].sensitivity,
                         values |-> getProcessedData(data, count,
                                                     settings[v].sensitivity)]
        /\ UNCHANGED <<clockVars, settings, lastWrite, audioVars, theme,
                       currentTheme, visualizerSettings, appReady,
                       exportFormat, mimeType, recorderTypes, fftSize,
                       horizon, bucket, capture, audioSensitivity, bandsResult,
                       currentVisualization, revision, particles,
                       ringParticles, orbitParticles, clouds, lastBassHit,
                       onsetAt, onsetGap, smoothedData, peakData,
                       peakVelocity, observerVars,
                   surfaceVars>>

-----------------------------------------------------------------------------
(* The renderers' draw(), as far as the pools, the onset detector and the  *)
(* bar smoothing go.  raw is what the analyser delivers for the frame;     *)
(* r = [roll, deaths, strict] stands for what the code leaves to chance    *)
(* and to the canvas: whether the Math.random() tests pass, how many       *)
(* particles die or leave the screen in the frame, and whether             *)
(* addColorStop rejects a colour string it cannot parse.                   *)

CeilDiv(a, b) == (a + b - 1) \div b

(* A loop of n pushes, each guarded by length < cap. *)
PushUpTo_unguarded(len, n, cap) == len + n

PushUpTo(len, n, cap) == IF len >= cap THEN len ELSE Min(len + n, cap)

Dead(r, len) ==
    CASE r.deaths = "none" -> 0
      [] r.deaths = "half" -> len \div 2
      [] r.deaths = "all" -> len

(* The constants of the particle field in the revision loaded. *)
Field ==
    IF revision = "later"
    THEN [maxParticles |-> MaxParticles, bassThreshold |-> BassThreshold,
          refractory |-> Refractory, ring |-> MaxRingParticles]
    ELSE [maxParticles |-> EarlierMaxParticles,
          bassThreshold |-> EarlierBassThreshold,
          refractory |-> EarlierRefractory, ring |-> 0]

(* createExplosion's count, Math.floor(30 + intensity * 40), intensity    *)
(* being bands.bass / 255; floor(20 + intensity * 30) earlier.             *)
ExplosionCount(b) ==
    IF revision = "later"
    THEN 30 + (b.bass * 40) \div (255 * b.third)
    ELSE 20 + (b.bass * 30) \div (255 * b.third)

(* The iterations of spawnParticles' loop, i < spawnRate: spawnRate is    *)
(* 3 + (bass + mid) * 6, and 2 + bass * 8 earlier.                         *)
SpawnCount(b) ==
    IF revision = "later"
    THEN 3 + CeilDiv((b.bass + b.mid) * 6, 255 * b.third)
    ELSE 2 + CeilDiv(b.bass * 8, 255 * b.third)

IsBassHit_always(b, t) ==
    /\ b.bass > Field.bassThreshold * b.third

(* isBassHit at simulation time t *)
IsBassHit(b, t) ==
    /\ b.bass > Field.bassThreshold * b.third
    /\ t - lastBassHit > Field.refractory

(* ParticlesVisualizer.draw *)
ParticlesDraw(raw, r) ==
    LET data == getFrequencyData(raw, audioSensitivity)
        b == getFrequencyBands(data)
        t == time'["particles"]
        hit == IsBassHit(b, t)
        len == particles["particles"]
        exploded == IF hit
                    THEN PushUpTo(len, ExplosionCount(b), Field.maxParticles)
                    ELSE len
        spawned == PushUpTo(exploded, SpawnCount(b), Field.maxParticles)
    IN  /\ frequencyData' = data
        /\ bandsResult' = b
        /\ lastBassHit' = IF hit THEN t ELSE lastBassHit
        /\ onsetAt' = IF hit THEN now' ELSE onsetAt
        /\ onsetGap' = IF hit /\ onsetAt >= 0 THEN now' - onsetAt ELSE onsetGap
        /\ particles' = [particles EXCEPT
                            !["particles"] = spawned - Dead(r, spawned)]
        /\ ringParticles' = Max(ringParticles, Field.ring)
        /\ UNCHANGED <<audioSensitivity, currentVisualization, revision,
                       orbitParticles, clouds, smoothedData, peakData,
                       peakVelocity>>

(* CircularVisualizer's burst particles after a frame: the spawn on a     *)
(* strong bass that passes the Math.random() test, then the update.        *)
CircularPool(raw, r) ==
    LET b == getFrequencyBands(getFrequencyData(raw, audioSensitivity))
        len == particles["circular"]
        burst == /\ 10 * b.bass > 7 * 255 * b.third
                 /\ r.roll
                 /\ len < MaxBurstParticles
        count == Min(3 + (5 * b.bass) \div (255 * b.third),
                     MaxBurstParticles - len)
        trimmed == Min(IF burst THEN len + count ELSE len, MaxBurstParticles)
    IN  trimmed - Dead(r, trimmed)

(* CircularVisualizer.draw: updateOrbitParticles, updateAndDrawParticles *)
CircularDraw(raw, r) ==
    LET data == getFrequencyData(raw, audioSensitivity)
        b == getFrequencyBands(data)
        orbit == IF orbitParticles < MaxOrbitParticles
                 THEN orbitParticles + 1
                 ELSE orbitParticles
    IN  /\ frequencyData' = data
        /\ bandsResult' = b
        /\ orbitParticles' = Min(orbit, MaxOrbitParticles)
        /\ particles' = [particles EXCEPT !["circular"] = CircularPool(raw, r)]
        /\ UNCHANGED <<audioSensitivity, currentVisualization, revision,
                       ringParticles, clouds, lastBassHit, onsetAt, onsetGap,
                       smoothedData, peakData, peakVelocity>>

(* CloudVisualizer's clouds after a frame: spawnClouds adds one when its  *)
(* Math.random() test passes, updateClouds drops those that drifted off.   *)
CloudPool(r) ==
    LET spawned == IF r.roll /\ clouds < MaxClouds THEN clouds + 1 ELSE clouds
    IN  spawned - Dead(r, spawned)

(* CloudVisualizer.draw: spawnClouds, updateClouds *)
CloudDraw(raw, r) ==
    LET data == getFrequencyData(raw, audioSensitivity)
        b == getFrequencyBands(data)
    IN  /\ frequencyData' = data
        /\ bandsResult' = b
        /\ clouds' = CloudPool(r)
        /\ UNCHANGED <<audioSensitivity, currentVisualization, revision,
                       particles, ringParticles, orbitParticles, lastBassHit,
                       onsetAt, onsetGap, smoothedData, peakData,
                       peakVelocity>>

(* One bar of BarsVisualizer's smoothing and peak update: the bar-renderer *)
(* file has the peak fall under gravity and stop at the smoothed value,    *)
(* the earlier class has it decay by 2% a frame.                           *)
SmoothStep_overshoot(smoothed, d, factor) ==
    IF smoothed = NaN \/ d = NaN
    THEN NaN
    ELSE smoothed + ((d - smoothed) * (factor + 100)) \div 100

SmoothStep(smoothed, d, factor) ==
    IF smoothed = NaN \/ d = NaN
    THEN NaN
    ELSE smoothed + ((d - smoothed) * factor) \div 100

(* A comparison with NaN is false and Math.max of NaN is NaN. *)
BarStep(bar, d) ==
    IF revision = "later"
    THEN LET sm == SmoothStep(bar.smoothed, d, 25)
             vel == bar.velocity + 500
         IN  IF sm # NaN /\ bar.peak # NaN /\ sm > bar.peak
             THEN [smoothed |-> sm, peak |-> sm, velocity |-> 0]
             ELSE [smoothed |-> sm,
                   peak |-> IF sm = NaN \/ bar.peak = NaN
                            THEN NaN
                            ELSE Max(bar.peak - vel \div 2, sm),
                   velocity |-> vel]
    ELSE LET sm == SmoothStep(bar.smoothed, d, 30)
         IN  [smoothed |-> sm,
              peak |-> IF sm # NaN /\ bar.peak # NaN /\ sm > bar.peak
                       THEN sm
                       ELSE IF bar.peak = NaN THEN NaN
                            ELSE (bar.peak * 98) \div 100,
              velocity |-> bar.velocity]

(* The three arrays after the update, as one sequence of bars; they are    *)
(* filled with zeros first when their length is not the bar count.         *)
NeedsArrays_afterWrite ==
    \/ Len(smoothedData) # settings["bars"].barCount
    \/ "barCount" \in DOMAIN lastWrite[2]

(* BarsVisualizer.draw's test for allocating its three arrays anew. *)
NeedsArrays == Len(smoothedData) # settings["bars"].barCount

BarsAfter(raw) ==
    LET barCount == settings["bars"].barCount
        data == getProcessedData(getFrequencyData(raw, audioSensitivity),
                                 barCount, settings["bars"].sensitivity)
        fresh == NeedsArrays
    IN  [i \in 1..barCount |->
            BarStep(IF fresh
                    THEN [smoothed |-> 0, peak |-> 0, velocity |-> 0]
                    ELSE [smoothed |-> smoothedData[i], peak |-> peakData[i],
                          velocity |-> IF revision = "later"
                                       THEN peakVelocity[i]
                                       ELSE 0],
                    data[i])]

(* drawBarGlow builds the colour "rgb(r, g, b)" followed by two hex digits *)
(* for every bar of value 0.3 and more; a canvas that rejects the string   *)
(* makes addColorStop throw out of draw().                                 *)
BarsThrows(raw, r) ==
    /\ revision = "later"
    /\ r.strict
    /\ LET after == BarsAfter(raw)
       IN  \E i \in DOMAIN after : after[i].smoothed * 10 >= 3 * 255000

(* BarsVisualizer.draw *)
(* BarsVisualizer's particles after a frame that ends normally: one      *)
(* spawned for every bar above 0.8 when the Math.random() test passes,     *)
(* then the update and the cap.                                            *)
BarsPool(after, r) ==
    LET hot == Cardinality({i \in DOMAIN after :
                               after[i].smoothed * 10 > 8 * 255000})
        spawned == particles["bars"] + (IF r.roll THEN hot ELSE 0)
        alive == spawned - Dead(r, spawned)
    IN  Min(alive, MaxBarParticles)

BarsDraw(raw, r) ==
    LET data == getFrequencyData(raw, audioSensitivity)
        after == BarsAfter(raw)
    IN  /\ frequencyData' = data
        /\ bandsResult' = getFrequencyBands(data)
        /\ smoothedData' = [i \in DOMAIN after |-> after[i].smoothed]
        /\ peakData' = [i \in DOMAIN after |-> after[i].peak]
        /\ peakVelocity' = IF revision = "later"
                           THEN [i \in DOMAIN after |-> after[i].velocity]
                           ELSE peakVelocity
        /\ particles' = IF revision = "later" /\ ~BarsThrows(raw, r)
                        THEN [particles EXCEPT !["bars"] = BarsPool(after, r)]
                        ELSE particles
        /\ UNCHANGED <<audioSensitivity, currentVisualization, revision,
                       ringParticles, orbitParticles, clouds, lastBassHit,
                       onsetAt, onsetGap>>

(* draw() of the renderers whose state the model does not follow. *)
OtherDraw(raw) ==
    /\ frequencyData' = getFrequencyData(raw, audioSensitivity)
    /\ UNCHANGED <<audioSensitivity, bandsResult, currentVisualization,
                   revision, particles, ringParticles, orbitParticles, clouds,
                   lastBassHit, onsetAt, onsetGap, smoothedData, peakData,
                   peakVelocity>>

draw(v, raw, r) ==
    CASE v = "particles" -> ParticlesDraw(raw, r)
      [] v = "circular" -> CircularDraw(raw, r)
      [] v = "cloud" -> CloudDraw(raw, r)
      [] v = "bars" -> BarsDraw(raw, r)
      [] OTHER -> OtherDraw(raw)

(* The pool of a second instance of the same class that starts the frame  *)
(* in this instance's state and is handed the same inputs; roll is what    *)
(* its own Math.random() calls give it.  A class without a pool, and a     *)
(* frame that does not reach the pool's update, leave no record.           *)
TwinPool(v, raw, r, roll) ==
    LET own == [r EXCEPT !.roll = roll]
    IN  CASE v = "circular" -> CircularPool(raw, own)
          [] v = "cloud" -> CloudPool(own)
          [] v = "bars" /\ revision = "later" /\ ~BarsThrows(raw, r) ->
                BarsPool(BarsAfter(raw), own)
          [] OTHER -> -1

(* The trail with one more event; the oldest is dropped beyond four. *)
Trailed(event) ==
    LET all == Append(trail, event)
    IN  IF Len(all) > 4 THEN Tail(all) ELSE all

(* The record kept of a frame drawn. *)
Observe(v, raw, r) ==
    /\ trail' = IF observed.length > 0
                THEN Trailed([op |-> "frame", viz |-> v, arg |-> <<>>,
                              fresh |-> v = "bars" /\ NeedsArrays,
                              settings |-> settings[v]])
                ELSE trail
    /\ observed' =
          IF observed.ticks < observed.length
          THEN [observed EXCEPT
                   !.ticks = @ + 1,
                   !.onsets = IF v = "particles" /\ lastBassHit' # lastBassHit
                              THEN @ + 1
                              ELSE @]
          ELSE observed
    /\ IF observed.length > 0
       THEN \E roll \in BOOLEAN : twin' = TwinPool(v, raw, r, roll)
       ELSE twin' = twin

-----------------------------------------------------------------------------
(* The canvas and what the renderers derive from its size. *)

(* a || b || c for numbers: the first that is not 0. *)
FirstNonZero(a, b, c) == IF a # 0 THEN a ELSE IF b # 0 THEN b ELSE c

SizeOf_noFallback(c, canvas) ==
    LET width == c.clientWidth
        height == c.clientHeight
        after == IF width > 0 /\ height > 0
                 THEN [width |-> width, height |-> height]
                 ELSE canvas
    IN  [canvas |-> after, size |-> [width |-> width, height |-> height]]

(* BaseVisualizer.handleResize in container c: the canvas's size and the   *)
(* visualizer's width and height afterwards.                               *)
SizeOf(c, canvas) ==
    LET width == FirstNonZero(c.clientWidth, c.offsetWidth, FallbackWidth)
        height == FirstNonZero(c.clientHeight, c.offsetHeight, FallbackHeight)
        after == IF width > 0 /\ height > 0
                 THEN [width |-> width, height |-> height]
                 ELSE canvas
    IN  [canvas |-> after,
         size |-> [width |-> FirstNonZero(after.width, FallbackWidth,
                                          FallbackWidth),
                   height |-> FirstNonZero(after.height, FallbackHeight,
                                           FallbackHeight)]]

(* The test that opens draw(): !width || !height || width <= 0 || ... *)
ValidSize(s) == s.width > 0 /\ s.height > 0

(* ParticlesVisualizer.initFlowField *)
ParticlesGrid(s, old) ==
    IF ~ValidSize(s)
    THEN old
    ELSE [cols |-> FirstNonZero(CeilDiv(s.width, FlowResolution), 1, 1),
          rows |-> FirstNonZero(CeilDiv(s.height, FlowResolution), 1, 1)]

(* CloudVisualizer.initFlowField *)
CloudGrid(s) ==
    [cols |-> CeilDiv(s.width, FlowResolution) + 1,
     rows |-> CeilDiv(s.height, FlowResolution) + 1]

(* TerrainVisualizer.initTerrain *)
FlatTerrain == [z \in 1..TerrainDepth |-> [x \in 1..TerrainWidth |-> 0]]

Abs(a) == IF a < 0 THEN 0 - a ELSE a

(* The row updateTerrain synthesises from the spectrum data. *)
NewRow(data, sensitivity) ==
    LET clampedSensitivity == clamp(sensitivity, SensitivityMin,
                                    TerrainSensitivityMax)
    IN  [i \in 1..TerrainWidth |->
            LET x == i - 1
                dataIndex == (x * Len(data)) \div TerrainWidth
                value == clamp(data[dataIndex + 1], 0, 255)
                half == TerrainWidth \div 2
            \* value / 255 * 150 * centerFactor * sensitivity, thousandths:
            \* 150 * 1000 / (255 * 100) is 100 / 17
            IN  Min((value * (half - Abs(x - half)) * clampedSensitivity * 100)
                       \div (17 * half),
                    MaxTerrainHeight)]

(* TerrainVisualizer.updateTerrain: row z takes 0.95 of row z - 1 for z    *)
(* from terrainDepth - 1 down to 1, and row 0 is the new row.              *)
updateTerrain(old, data, sensitivity) ==
    [z \in 1..TerrainDepth |->
        IF z = 1
        THEN NewRow(data, sensitivity)
        ELSE [x \in 1..TerrainWidth |-> (old[z - 1][x] * 95) \div 100]]

(* handleResize as the window's resize event reaches visualizer v and the  *)
(* others, each through its own listener: the overrides of the cloud and   *)
(* the terrain renderer rebuild their grids, the particle field has none.  *)
HandleResize ==
    LET after == SizeOf(container', canvasSize)
    IN  /\ canvasSize' = after.canvas
        /\ size' = after.size
        /\ sized' = container'
        /\ flowGrid' = [flowGrid EXCEPT !["cloud"] = CloudGrid(after.size)]
        /\ terrain' = FlatTerrain
        /\ UNCHANGED show

(* What a frame of visualizer v that gets past the size test does to the   *)
(* grids.                                                                  *)
SurfaceFrame(v, raw) ==
    /\ flowGrid' = IF v = "particles" /\ 0 \in {flowGrid[v].cols,
                                                flowGrid[v].rows}
                   THEN [flowGrid EXCEPT ![v] = ParticlesGrid(size, @)]
                   ELSE flowGrid
    /\ terrain' = IF v = "3d"
                  THEN updateTerrain(terrain,
                                     getFrequencyData(raw, audioSensitivity),
                                     settings[v].sensitivity)
                  ELSE terrain
    /\ UNCHANGED <<container, canvasSize, size, sized, show>>

(* The visualizers whose draw() opens with the size test. *)
Guarded == Visualizers \ {"cloud"}

(* draw() of the visualizer shown, as a whole. *)
Drawn(v, raw, r) ==
    IF v \in Guarded /\ ~ValidSize(size)
    THEN /\ container' = container
         /\ HandleResize
         /\ UNCHANGED <<currentVisualization, rendererVars, observerVars>>
    ELSE /\ draw(v, raw, r)
         /\ Observe(v, raw, r)
         /\ SurfaceFrame(v, raw)

(* How draw() ends, as animate() sees it. *)
DrawOutcome(v, raw, r) ==
    IF v = "bars" /\ BarsThrows(raw, r)
    THEN <<"throw", CleanCtx, <<>>>>
    ELSE <<"ok", CleanCtx, <<>>>>

(* The App starts the visualizer shown: start() runs the first tick. *)
StartShown(raw, r) ==
    /\ start(currentVisualization,
             DrawOutcome(currentVisualization, raw, r))
    /\ IF tickOf' = currentVisualization
       THEN Drawn(currentVisualization, raw, r)
       ELSE UNCHANGED frameVars

(* A queued frame callback runs d ms later. *)
FrameShown(c, d, raw, r) ==
    /\ animate(c, d, DrawOutcome(c.viz, raw, r))
    /\ IF tickOf' = c.viz
       THEN Drawn(c.viz, raw, r)
       ELSE UNCHANGED frameVars

(* updateSettings(w) on the visualizer shown, in an observed run. *)
WriteShown(w) ==
    /\ SettingsWrite(currentVisualization, w)
    /\ trail' = Trailed([op |-> "write", viz |-> currentVisualization,
                         arg |-> w, fresh |-> FALSE,
                         settings |-> settings'[currentVisualization]])
    /\ UNCHANGED <<currentVisualization, rendererVars, observed, twin,
                   surfaceVars>>

(* The animation-speed slider is moved. *)
SpeedShown(x) ==
    /\ SettingsWrite(currentVisualization, [k \in {"animationSpeed"} |-> x])
    /\ UNCHANGED frameVars

----------------------------------------------------------------------------
(* Specification of the frame clock: one visualizer instance driven by     *)
(* start/stop/destroy calls, frame callbacks, stalls and speed writes.     *)

ClockSubjects == {"bars"}
FrameGaps == {40, 120}
SpeedWrites == {5, 100, 1000}
ClockOutcomes == {<<"ok", CleanCtx, <<>>>>, <<"throw", CleanCtx, <<>>>>}

InitVisualizers ==
    /\ isRunning = [v \in Visualizers |-> FALSE]
    /\ animationId = [v \in Visualizers |-> 0]
    /\ time = [v \in Visualizers |-> 0]
    /\ lastFrameTime = [v \in Visualizers |-> 0]
    /\ settings = [v \in Visualizers |-> DefaultSettings]
    /\ resizeListener = [v \in Visualizers |-> TRUE]
    /\ now = 0
    /\ rafQueue = {}
    /\ ctx = CleanCtx
    /\ ctxStack = <<>>
    /\ deltaTime = 0
    /\ tickOf = "none"
    /\ lastTickAt = [v \in Visualizers |-> -1]
    /\ lastStartAt = [v \in Visualizers |-> -1]
    /\ stopped = [v \in Visualizers |-> FALSE]
    /\ destroyed = [v \in Visualizers |-> FALSE]
    /\ drawResult = "none"
    /\ lastWrite = <<"none", <<>>>>

(* The AudioProcessor after App.init() has awaited audioProcessor.init():  *)
(* the context exists, in one of the given states.                         *)
InitAudio(states) ==
    /\ audioContext \in states
    /\ audioElement = 0
    /\ mediaStream = 0
    /\ source = [kind |-> "none", id |-> 0]
    /\ currentSource = "none"
    /\ isPlaying = FALSE
    /\ isMicActive = FALSE
    /\ analyserInputs = {}
    /\ analyserOutputs = {}
    /\ recordingDestination = 0
    /\ gainValue = 100
    /\ elementVolume = 100
    /\ elementTime = 0
    /\ lastCall = "none"
    /\ raised = FALSE
    /\ destinations = 0
    /\ playingElements = {}
    /\ liveTracks = {}
    /\ startedBuffers = {}
    /\ openContexts = 1
    /\ ops = {}
    /\ calls = 0
    /\ apDestroyed = FALSE

(* The analysis buffers and the renderers as constructed, with the        *)
(* visualization in V shown and the class revision in R loaded.            *)
InitRenderers(V, R) ==
    /\ audioSensitivity = 100
    /\ frequencyData = Level(0)
    /\ bandsResult = getFrequencyBands(Level(0))
    /\ currentVisualization \in V
    /\ revision \in R
    /\ particles = [v \in {"bars", "circular", "particles"} |-> 0]
    /\ ringParticles = 0
    /\ orbitParticles = 0
    /\ clouds = 0
    /\ lastBassHit = 0
    /\ onsetAt = -1
    /\ onsetGap = -1
    /\ smoothedData = <<>>
    /\ peakData = <<>>
    /\ peakVelocity = <<>>

(* Nothing counted yet; ticks and onsets are counted up to length ticks. *)
InitObserver(length) ==
    /\ observed = [length |-> length, ticks |-> 0, onsets |-> 0]
    /\ twin = -1
    /\ trail = <<>>

(* The visualizers as constructed in container c: the base constructor    *)
(* sizes the canvas, the cloud renderer builds its grid, the particle      *)
(* field leaves its grid empty.                                            *)
IdleShow == [isPlaying |-> FALSE, currentSource |-> "none",
             audioLoaded |-> FALSE, pending |-> {}]

InitSurface(c) ==
    /\ show = IdleShow
    /\ container = c
    /\ canvasSize = SizeOf(c, [width |-> 300, height |-> 150]).canvas
    /\ size = SizeOf(c, [width |-> 300, height |-> 150]).size
    /\ sized = c
    /\ flowGrid = [particles |-> [cols |-> 0, rows |-> 0],
                   cloud |-> CloudGrid(size)]
    /\ terrain = FlatTerrain

Box(w, h) == [clientWidth |-> w, clientHeight |-> h,
              offsetWidth |-> w, offsetHeight |-> h]

InitFrames(V, R) ==
    /\ InitRenderers(V, R)
    /\ InitObserver(0)
    /\ InitSurface(Box(640, 480))

(* formatTypes, the preference list of each format *)
formatTypes ==
    [mp4 |-> <<"video/mp4;codecs=h264,aac", "video/mp4;codecs=avc1",
               "video/mp4", "video/webm;codecs=h264",
               "video/webm;codecs=vp9,opus", "video/webm;codecs=vp8,opus",
               "video/webm">>,
     webm |-> <<"video/webm;codecs=vp9,opus", "video/webm;codecs=vp8,opus",
                "video/webm;codecs=vp9", "video/webm;codecs=vp8",
                "video/webm">>,
     gif |-> <<"video/webm;codecs=vp9", "video/webm">>]

MimeTypes == UNION {{formatTypes[f][i] : i \in DOMAIN formatTypes[f]} :
                       f \in DOMAIN formatTypes}

(* The App's stores, the exporter and the analyser as constructed; ready   *)
(* says whether App.init() has run (with the settings controls at the      *)
(* constructors' defaults).  h is the horizon of the run.                  *)
IdleCapture ==
    [isExporting |-> FALSE, recorder |-> 0, recording |-> FALSE,
     recordedChunks |-> {}, exports |-> 0, timers |-> {}, events |-> <<>>,
     gif |-> -1, gifs |-> 0, finishes |-> <<>>, stopped |-> {}, cancelled |-> {},
     blobs |-> {}]

InitStores(ready, h) ==
    /\ capture = IdleCapture
    /\ theme = [v \in Visualizers |-> "neon"]
    /\ currentTheme = "neon"
    /\ visualizerSettings = DefaultSettings
    /\ appReady = ready
    /\ exportFormat = "webm"
    /\ mimeType = [format |-> "", type |-> "none"]
    /\ fftSize = 2 * Bins
    /\ processed = [fftSize |-> 0, data |-> <<>>, count |-> 0,
                    sensitivity |-> 0, values |-> <<>>]
    /\ horizon = h

(* A bucket at rest: value and input 0, nothing held yet. *)
IdleBucket == [smoothed |-> 0, input |-> 0, factor |-> 25, held |-> 0]

(* The same in a browser whose recorder takes every type asked for. *)
InitApp(ready, h) ==
    /\ InitStores(ready, h)
    /\ recorderTypes = MimeTypes
    /\ bucket = IdleBucket

(* The context is suspended or running, as the autoplay policy has it. *)
Init ==
    /\ InitApp(TRUE, MaxNow)
    /\ InitVisualizers
    /\ InitAudio({"suspended", "running"})
    /\ InitFrames({"bars"}, {"later"})

(* In this specification and the next two, draw() is its outcome only. *)
Start ==
    /\ \E v \in ClockSubjects, o \in ClockOutcomes : start(v, o)
    /\ UNCHANGED frameVars
Stop ==
    /\ \E v \in ClockSubjects : stop(v)
    /\ UNCHANGED frameVars
Destroy ==
    /\ \E v \in ClockSubjects : destroy(v)
    /\ UNCHANGED frameVars
Animate ==
    /\ \E c \in rafQueue, d \in FrameGaps, o \in ClockOutcomes :
           animate(c, d, o)
    /\ UNCHANGED frameVars
Stall ==
    /\ \E d \in FrameGaps : Elapse(d)
    /\ UNCHANGED frameVars
SetSpeed ==
    /\ \E v \in ClockSubjects, x \in SpeedWrites :
           SettingsWrite(v, [k \in {"animationSpeed"} |-> x])
    /\ UNCHANGED frameVars

Next == Start \/ Stop \/ Destroy \/ Animate \/ Stall \/ SetSpeed

Spec == Init /\ [][Next]_vars

----------------------------------------------------------------------------
(* Specification of the canvas state across ticks: the same visualizer,    *)
(* every draw() outcome, one frame gap.                                    *)

CanvasGaps == {40}

CanvasStart ==
    /\ \E v \in ClockSubjects, o \in DrawOutcomes : start(v, o)
    /\ UNCHANGED frameVars
CanvasStop ==
    /\ \E v \in ClockSubjects : stop(v)
    /\ UNCHANGED frameVars
CanvasAnimate ==
    /\ \E c \in rafQueue, d \in CanvasGaps, o \in DrawOutcomes :
           animate(c, d, o)
    /\ UNCHANGED frameVars

CanvasNext == CanvasStart \/ CanvasStop \/ CanvasAnimate

SpecCanvas == Init /\ [][CanvasNext]_vars

----------------------------------------------------------------------------
(* Specification of the settings store: updateSettings calls on two        *)
(* visualizer instances, with one key or with a whole settings object, the *)
(* values in and out of range.                                             *)

SettingsSubjects == {"bars", "circular"}

SettingsInputs ==
    [sensitivity |-> {5, 100, 1000}, animationSpeed |-> {-100, 100, 501},
     barCount |-> {0, 64, 257}, barSpacing |-> {0, 2}]

SingleKeyWrites ==
    UNION {{[j \in {k} |-> x] : x \in SettingsInputs[k]} : k \in Keys}

WholeObjectWrites ==
    {[sensitivity |-> 1000, animationSpeed |-> 501, barCount |-> 257,
      barSpacing |-> 2],
     [sensitivity |-> 5, animationSpeed |-> -100, barCount |-> 0,
      barSpacing |-> 0],
     [sensitivity |-> 100, animationSpeed |-> 100, barCount |-> 300,
      barSpacing |-> 2]}

UpdateOneKey ==
    /\ \E v \in SettingsSubjects, w \in SingleKeyWrites : SettingsWrite(v, w)
    /\ UNCHANGED frameVars
UpdateWholeObject ==
    /\ \E v \in SettingsSubjects, w \in WholeObjectWrites :
           SettingsWrite(v, w)
    /\ UNCHANGED frameVars

SettingsNext == UpdateOneKey \/ UpdateWholeObject

SpecSettings == Init /\ [][SettingsNext]_vars

-----------------------------------------------------------------------------
(* Palettes.  colorSchemes is an object literal: obj[name] is the own      *)
(* member of that name, else the member every object inherits from         *)
(* Object.prototype under that name, else undefined.                       *)

ColorSchemes == {"neon", "fire", "ocean", "sunset", "forest", "galaxy",
                 "monochrome", "rainbow"}

ObjectPrototype == {"constructor", "toString", "valueOf", "hasOwnProperty",
                    "__proto__"}

Member(own, name) ==
    IF name \in own THEN [kind |-> "own", name |-> name]
    ELSE IF name \in ObjectPrototype
         THEN [kind |-> "inherited", name |-> name]
         ELSE [kind |-> "undefined", name |-> ""]

Truthy(x) == x.kind # "undefined"

(* BaseVisualizer.getColors, for a visualizer whose this.theme is t *)
getColors(t) ==
    LET x == Member(ColorSchemes, t)
    IN  IF Truthy(x) THEN x ELSE Member(ColorSchemes, "neon")

(* BaseVisualizer.setTheme: this.theme afterwards *)
setTheme(old, themeName) ==
    IF Truthy(Member(ColorSchemes, themeName)) THEN themeName ELSE old

-----------------------------------------------------------------------------
(* The App: initialisation, theme selection, settings writes and           *)
(* visualization switches.                                                 *)

(* No tick runs in the step and the frame clock is left alone. *)
NoTick ==
    /\ drawResult' = "none" /\ tickOf' = "none"
    /\ UNCHANGED <<isRunning, animationId, time, lastFrameTime,
                   resizeListener, now, rafQueue, ctx, ctxStack, deltaTime,
                   lastTickAt, lastStartAt, destroyed>>

(* Playback has not begun: App.isPlaying is false and no source is chosen, *)
(* so no visualizer runs.                                                  *)
AppIdle == \A v \in Visualizers : ~isRunning[v]

(* App.init from initVisualizers on, with the settings controls holding    *)
(* ui when syncSettingsFromUI reads them: every visualizer gets the        *)
(* current theme, the central settings become ui, and                      *)
(* setVisualization("bars") applies theme and central settings to the bar  *)
(* renderer, whose updateSettings clamps the central object in place.      *)
AppInit(ui) ==
    /\ ~appReady
    /\ appReady' = TRUE
    /\ theme' = [v \in Visualizers |-> setTheme(theme[v], currentTheme)]
    /\ currentVisualization' = "bars"
    /\ settings' = [settings EXCEPT !["bars"] = updateSettings(@, ui)]
    /\ visualizerSettings' = ClampInPlace(ui)
    /\ lastWrite' = <<"bars", ClampInPlace(ui)>>
    /\ NoTick
    /\ UNCHANGED <<stopped, currentTheme, exportFormat, mimeType,
                   recorderTypes, fftSize, processed, horizon, bucket, capture,
                   audioVars, rendererVars, observerVars,
                   surfaceVars>>

(* App.setTheme *)
AppSetTheme(name) ==
    /\ appReady
    /\ currentTheme' = name
    /\ theme' = [v \in Visualizers |-> setTheme(theme[v], name)]
    /\ NoTick
    /\ UNCHANGED <<stopped, settings, lastWrite, visualizerSettings, appReady,
                   exportFormat, mimeType, recorderTypes, fftSize, processed, horizon,
                   bucket, capture,
                   audioVars, frameVars>>

(* App.updateVisualizerSettings: the central object takes the values as    *)
(* written; the first visualizer's updateSettings clamps the object handed *)
(* round, and every visualizer stores it.                                  *)
AppUpdateVisualizerSettings(w) ==
    /\ appReady
    /\ visualizerSettings' = ObjectAssign(visualizerSettings, w)
    /\ settings' = [v \in Visualizers |-> updateSettings(settings[v], w)]
    /\ lastWrite' = <<"3d", ClampInPlace(w)>>
    /\ NoTick
    /\ UNCHANGED <<stopped, theme, currentTheme, appReady, exportFormat,
                   mimeType, recorderTypes, fftSize, processed, horizon, bucket, capture,
                   audioVars,
                   frameVars>>

(* App.setVisualization(type) before playback has begun: an unknown type   *)
(* returns at once; else the visualizer shown is stopped, the one chosen   *)
(* gets the current theme and the central settings, and is not started.    *)
AppSetVisualization(type) ==
    /\ appReady
    /\ AppIdle
    /\ IF type \notin Visualizers
       THEN UNCHANGED <<stopped, currentVisualization, theme, settings,
                        visualizerSettings, lastWrite>>
       ELSE /\ stopped' = [stopped EXCEPT ![currentVisualization] = TRUE]
            /\ currentVisualization' = type
            /\ theme' = [theme EXCEPT ![type] = setTheme(@, currentTheme)]
            /\ settings' = [settings EXCEPT
                               ![type] = updateSettings(@, visualizerSettings)]
            /\ visualizerSettings' = ClampInPlace(visualizerSettings)
            /\ lastWrite' = <<type, ClampInPlace(visualizerSettings)>>
    /\ NoTick
    /\ UNCHANGED <<currentTheme, appReady, exportFormat, mimeType, recorderTypes, fftSize,
                   processed, horizon, bucket, capture, audioVars, rendererVars,
                   observerVars,
                   surfaceVars>>

-----------------------------------------------------------------------------
(* The VideoExporter's choice of a recording type. *)

RECURSIVE FirstSupported(_, _, _)
(* The for loop over preferredTypes from entry i on, and the fallback. *)
FirstSupported(list, i, supported) ==
    IF i > Len(list) THEN "video/webm"
    ELSE IF list[i] \in supported THEN list[i]
         ELSE FirstSupported(list, i + 1, supported)

(* VideoExporter.getSupportedMimeType.  formatTypes is an object literal;  *)
(* a format naming a member inherited from Object.prototype yields that    *)
(* member, which is truthy and not iterable, so for...of throws.           *)
getSupportedMimeType(format, supported) ==
    LET found == Member(DOMAIN formatTypes, format)
        preferredTypes == IF Truthy(found)
                          THEN found
                          ELSE Member(DOMAIN formatTypes, "webm")
    IN  IF preferredTypes.kind = "own"
        THEN FirstSupported(formatTypes[preferredTypes.name], 1, supported)
        ELSE "TypeError"

(* VideoExporter.updateSettings({ format }) *)
ExportSetFormat(format) ==
    /\ exportFormat' = format
    /\ NoTick
    /\ UNCHANGED <<stopped, settings, lastWrite, theme, currentTheme,
                   visualizerSettings, appReady, mimeType, recorderTypes,
                   fftSize, processed, horizon, bucket, capture, audioVars, frameVars>>

(* A call of getSupportedMimeType, as startRecording and the recorder's    *)
(* onstop handler make it.                                                 *)
ExportGetMimeType ==
    /\ mimeType' = [format |-> exportFormat,
                    type |-> getSupportedMimeType(exportFormat, recorderTypes)]
    /\ NoTick
    /\ UNCHANGED <<stopped, settings, lastWrite, theme, currentTheme,
                   visualizerSettings, appReady, exportFormat, recorderTypes,
                   fftSize, processed, horizon, bucket, capture, audioVars, frameVars>>

-----------------------------------------------------------------------------
(* The AudioProcessor.  The fields and the media objects they refer to,    *)
(* as one record, so that a method is a function from state to state.      *)

NoSource == [kind |-> "none", id |-> 0]
GainNode == [node |-> "gain", id |-> 0]

AudioState ==
    [audioContext |-> audioContext, audioElement |-> audioElement,
     mediaStream |-> mediaStream, source |-> source,
     currentSource |-> currentSource, isPlaying |-> isPlaying,
     isMicActive |-> isMicActive, analyserInputs |-> analyserInputs,
     analyserOutputs |-> analyserOutputs,
     recordingDestination |-> recordingDestination,
     playingElements |-> playingElements, liveTracks |-> liveTracks,
     startedBuffers |-> startedBuffers, openContexts |-> openContexts,
     gainValue |-> gainValue, elementVolume |-> elementVolume,
     elementTime |-> elementTime]

Becomes(a) ==
    /\ audioContext' = a.audioContext
    /\ audioElement' = a.audioElement
    /\ mediaStream' = a.mediaStream
    /\ source' = a.source
    /\ currentSource' = a.currentSource
    /\ isPlaying' = a.isPlaying
    /\ isMicActive' = a.isMicActive
    /\ analyserInputs' = a.analyserInputs
    /\ analyserOutputs' = a.analyserOutputs
    /\ recordingDestination' = a.recordingDestination
    /\ playingElements' = a.playingElements
    /\ liveTracks' = a.liveTracks
    /\ startedBuffers' = a.startedBuffers
    /\ openContexts' = a.openContexts
    /\ gainValue' = a.gainValue
    /\ elementVolume' = a.elementVolume
    /\ elementTime' = a.elementTime

(* The step was a call of the method name, which threw or returned. *)
Called(name, threw) == lastCall' = name /\ raised' = threw

(* AudioProcessor.stopMicrophone *)
stopMicrophone(a) ==
    [a EXCEPT !.liveTracks = @ \ {a.mediaStream},
              !.mediaStream = 0,
              !.isMicActive = FALSE,
              !.currentSource = "none"]

(* AudioProcessor.stop.  source.stop() on a node that is not a started     *)
(* buffer source throws, which the method ignores.                         *)
AudioProcessor_stop(a) ==
    LET a1 == IF a.audioElement # 0
              THEN [a EXCEPT !.playingElements = @ \ {a.audioElement},
                             !.audioElement = 0,
                             !.elementTime = 0,
                             !.elementVolume = 100]
              ELSE a
        a2 == IF a1.source.kind = "buffer" /\ a1.currentSource = "buffer"
              THEN [a1 EXCEPT !.startedBuffers = @ \ {a1.source.id}]
              ELSE a1
        a3 == IF a2.mediaStream # 0 THEN stopMicrophone(a2) ELSE a2
    IN  [a3 EXCEPT !.source = NoSource, !.isPlaying = FALSE]

(* AudioProcessor.stopAudioStreamRecording *)
stopAudioStreamRecording(a) ==
    IF a.recordingDestination # 0
    THEN [a EXCEPT !.analyserOutputs =
                       @ \ {[node |-> "destination",
                             id |-> a.recordingDestination]},
                   !.recordingDestination = 0]
    ELSE a

(* AudioProcessor.destroy *)
AudioProcessor_destroy(a) ==
    LET a1 == stopAudioStreamRecording(AudioProcessor_stop(a))
    IN  IF a1.audioContext # "none"
        THEN [a1 EXCEPT !.audioContext = "none",
                        !.openContexts = @ - 1]
        ELSE a1

(* loadFile from "Create audio element" on, for call id; with the context  *)
(* gone, createMediaElementSource throws on null after the element was     *)
(* stored.                                                                 *)
loadFileAttach(a, id) ==
    IF a.audioContext = "none"
    THEN [a EXCEPT !.audioElement = id, !.elementTime = 0,
                   !.elementVolume = 100]
    ELSE [a EXCEPT !.audioElement = id,
                   !.elementTime = 0,
                   !.elementVolume = 100,
                   !.source = [kind |-> "element", id |-> id],
                   !.analyserInputs = @ \cup {[kind |-> "element", id |-> id]},
                   !.analyserOutputs = @ \cup {GainNode},
                   !.currentSource = "file"]

(* loadBuffer after decodeAudioData has resolved. *)
loadBufferAttach(a, id) ==
    IF a.audioContext = "none"
    THEN a
    ELSE [a EXCEPT !.source = [kind |-> "buffer", id |-> id],
                   !.analyserInputs = @ \cup {[kind |-> "buffer", id |-> id]},
                   !.analyserOutputs = @ \cup {GainNode},
                   !.currentSource = "buffer"]

(* startMicrophone after getUserMedia has resolved with stream id: the     *)
(* stream is stored first; with the context gone, createMediaStreamSource  *)
(* throws on null and the method returns false.                            *)
startMicrophoneAttach(a, id) ==
    LET a1 == [a EXCEPT !.mediaStream = id, !.liveTracks = @ \cup {id}]
    IN  IF a1.audioContext = "none"
        THEN a1
        ELSE [a1 EXCEPT !.source = [kind |-> "mic", id |-> id],
                        !.analyserInputs = @ \cup {[kind |-> "mic", id |-> id]},
                        !.isMicActive = TRUE,
                        !.currentSource = "mic"]

AttachOps == {"loadFile", "loadBuffer", "startMicrophone"}

(* An attach method from this.stop() up to its next await or its end, for  *)
(* the call o = [id, op, pc] in state a.  loadFile has no further await;   *)
(* loadBuffer reads this.audioContext.decodeAudioData, which throws on     *)
(* null.                                                                   *)
Proceed(o, a) ==
    LET a1 == AudioProcessor_stop(a)
    IN  CASE o.op = "loadFile" ->
               /\ Becomes(loadFileAttach(a1, o.id))
               /\ ops' = ops \ {o}
          [] o.op = "loadBuffer" ->
               /\ Becomes(a1)
               /\ ops' = IF a1.audioContext = "none"
                         THEN ops \ {o}
                         ELSE (ops \ {o}) \cup {[o EXCEPT !.pc = "decode"]}
          [] o.op = "startMicrophone" ->
               /\ Becomes(a1)
               /\ ops' = (ops \ {o}) \cup {[o EXCEPT !.pc = "getUserMedia"]}

restOfModel == <<clockVars, settings, lastWrite, frameVars, appVars>>

(* A call of loadFile, loadBuffer or startMicrophone, up to its first      *)
(* await.  The context exists (no call is made after destroy()), so the    *)
(* method awaits resume() when the context is suspended and goes on to     *)
(* this.stop() otherwise.                                                  *)
CallAttach(op) ==
    /\ calls < MaxCalls
    /\ ~apDestroyed
    /\ calls' = calls + 1
    /\ LET o == [id |-> calls + 1, op |-> op, pc |-> "resume"]
       IN  IF audioContext = "suspended"
           THEN /\ ops' = ops \cup {o}
                /\ Becomes(AudioState)
           ELSE Proceed(o, AudioState)
    /\ Called("other", FALSE)
    /\ UNCHANGED <<destinations, apDestroyed, restOfModel>>

loadFile == CallAttach("loadFile")
loadBuffer == CallAttach("loadBuffer")
startMicrophone == CallAttach("startMicrophone")

(* audioContext.resume() settles for a suspended call: resolved, the       *)
(* context (if still open) runs and the call goes on; on a context closed  *)
(* meanwhile it may also reject, which ends the call in its catch block.   *)
ResumeSettles ==
    \E o \in ops :
        /\ o.pc = "resume"
        /\ \/ Proceed(o, [AudioState EXCEPT !.audioContext =
                              IF @ = "suspended" THEN "running" ELSE @])
           \/ /\ audioContext = "none"
              /\ ops' = ops \ {o}
              /\ Becomes(AudioState)
        /\ Called("other", FALSE)
        /\ UNCHANGED <<destinations, calls, apDestroyed, restOfModel>>

(* decodeAudioData settles: resolved, loadBuffer attaches the buffer       *)
(* source; rejected, it ends in its catch block.                           *)
DecodeSettles ==
    \E o \in ops :
        /\ o.pc = "decode"
        /\ ops' = ops \ {o}
        /\ \/ Becomes(loadBufferAttach(AudioState, o.id))
           \/ Becomes(AudioState)
        /\ Called("other", FALSE)
        /\ UNCHANGED <<destinations, calls, apDestroyed, restOfModel>>

(* getUserMedia settles: granted, startMicrophone stores the stream and    *)
(* attaches it; denied, it returns false.                                  *)
GetUserMediaSettles ==
    \E o \in ops :
        /\ o.pc = "getUserMedia"
        /\ ops' = ops \ {o}
        /\ \/ Becomes(startMicrophoneAttach(AudioState, o.id))
           \/ Becomes(AudioState)
        /\ Called("other", FALSE)
        /\ UNCHANGED <<destinations, calls, apDestroyed, restOfModel>>

(* AudioProcessor.play.  source.start() throws on a node started before    *)
(* (and is no method of a node that is not a buffer source), ahead of the  *)
(* assignment to isPlaying.                                                *)
playThrows(a) ==
    /\ ~(a.audioElement # 0 /\ a.currentSource = "file")
    /\ a.source.kind # "none" /\ a.currentSource = "buffer"
    /\ (a.source.kind # "buffer" \/ a.source.id \in a.startedBuffers)

AudioProcessor_play(a) ==
    IF a.audioElement # 0 /\ a.currentSource = "file"
    THEN [a EXCEPT !.playingElements = @ \cup {a.audioElement},
                   !.isPlaying = TRUE]
    ELSE IF a.source.kind # "none" /\ a.currentSource = "buffer"
              /\ ~playThrows(a)
         THEN [a EXCEPT !.startedBuffers = @ \cup {a.source.id},
                        !.isPlaying = TRUE]
         ELSE a

(* AudioProcessor.pause *)
AudioProcessor_pause(a) ==
    IF a.audioElement # 0 /\ a.currentSource = "file"
    THEN [a EXCEPT !.playingElements = @ \ {a.audioElement},
                   !.isPlaying = FALSE]
    ELSE a

(* AudioProcessor.togglePlay *)
AudioProcessor_togglePlay(a) ==
    IF a.isPlaying THEN AudioProcessor_pause(a) ELSE AudioProcessor_play(a)

(* AudioProcessor.seek(position), position in percent *)
AudioProcessor_seek(a, position) ==
    IF a.audioElement # 0 THEN [a EXCEPT !.elementTime = position] ELSE a

(* AudioProcessor.setVolume(volume): the gain node exists from init() on. *)
AudioProcessor_setVolume(a, volume) ==
    IF a.audioElement # 0
    THEN [a EXCEPT !.gainValue = volume, !.elementVolume = volume]
    ELSE [a EXCEPT !.gainValue = volume]

Volumes == {50}
SeekPositions == {50}

play ==
    /\ Becomes(AudioProcessor_play(AudioState))
    /\ Called("play", playThrows(AudioState))
    /\ UNCHANGED <<destinations, ops, calls, apDestroyed, restOfModel>>

pause ==
    /\ Becomes(AudioProcessor_pause(AudioState))
    /\ Called("pause", FALSE)
    /\ UNCHANGED <<destinations, ops, calls, apDestroyed, restOfModel>>

togglePlay ==
    /\ Becomes(AudioProcessor_togglePlay(AudioState))
    /\ Called("togglePlay", ~isPlaying /\ playThrows(AudioState))
    /\ UNCHANGED <<destinations, ops, calls, apDestroyed, restOfModel>>

(* seek: until its metadata has loaded the element's duration is NaN, and  *)
(* the assignment of NaN to currentTime throws a TypeError.                *)
seek ==
    /\ \E position \in SeekPositions :
          \/ /\ Becomes(AudioProcessor_seek(AudioState, position))
             /\ Called("seek", FALSE)
          \/ /\ audioElement # 0
             /\ Becomes(AudioState)
             /\ Called("seek", TRUE)
    /\ UNCHANGED <<destinations, ops, calls, apDestroyed, restOfModel>>

setVolume ==
    /\ \E volume \in Volumes :
          Becomes(AudioProcessor_setVolume(AudioState, volume))
    /\ Called("setVolume", FALSE)
    /\ UNCHANGED <<destinations, ops, calls, apDestroyed, restOfModel>>

AudioStop ==
    /\ Becomes(AudioProcessor_stop(AudioState))
    /\ Called("other", FALSE)
    /\ UNCHANGED <<destinations, ops, calls, apDestroyed, restOfModel>>

AudioStopMicrophone ==
    /\ Becomes(stopMicrophone(AudioState))
    /\ Called("other", FALSE)
    /\ UNCHANGED <<destinations, ops, calls, apDestroyed, restOfModel>>

(* AudioProcessor.getAudioStreamForRecording *)
getAudioStreamForRecording ==
    /\ destinations < MaxTaps
    /\ audioContext # "none"
    /\ destinations' = destinations + 1
    /\ Becomes([AudioState EXCEPT
                   !.analyserOutputs =
                       @ \cup {[node |-> "destination",
                                id |-> destinations + 1]},
                   !.recordingDestination = destinations + 1])
    /\ Called("getAudioStreamForRecording", FALSE)
    /\ UNCHANGED <<ops, calls, apDestroyed, restOfModel>>

AudioStopRecording ==
    /\ Becomes(stopAudioStreamRecording(AudioState))
    /\ Called("stopAudioStreamRecording", FALSE)
    /\ UNCHANGED <<destinations, ops, calls, apDestroyed, restOfModel>>

AudioDestroy ==
    /\ Becomes(AudioProcessor_destroy(AudioState))
    /\ apDestroyed' = TRUE
    /\ Called("other", FALSE)
    /\ UNCHANGED <<destinations, ops, calls, restOfModel>>

-----------------------------------------------------------------------------
(* Specification of the AudioProcessor: attach calls, the settling of      *)
(* their awaits in any order, and the synchronous methods between them.    *)

AudioNext ==
    \/ loadFile \/ loadBuffer \/ startMicrophone
    \/ ResumeSettles \/ DecodeSettles \/ GetUserMediaSettles
    \/ play \/ pause \/ AudioStop \/ AudioStopMicrophone
    \/ getAudioStreamForRecording \/ AudioStopRecording \/ AudioDestroy

SpecAudio == Init /\ [][AudioNext]_vars

-----------------------------------------------------------------------------
(* Specification of the playback controls: on a running context, attach    *)
(* calls and the settling of their awaits, with play, pause, togglePlay,   *)
(* seek, setVolume, stop and stopMicrophone called between them.           *)

InitControls ==
    /\ InitApp(TRUE, MaxNow)
    /\ InitVisualizers
    /\ InitAudio({"running"})
    /\ InitFrames({"bars"}, {"later"})

ControlsNext ==
    \/ loadFile \/ loadBuffer \/ startMicrophone
    \/ DecodeSettles \/ GetUserMediaSettles
    \/ play \/ pause \/ togglePlay \/ seek \/ setVolume
    \/ AudioStop \/ AudioStopMicrophone

SpecControls == InitControls /\ [][ControlsNext]_vars

-----------------------------------------------------------------------------
(* The audio element's events.  loadFile registers a "timeupdate" and an   *)
(* "ended" listener on every element it connects to the analyser; the      *)
(* listeners are never removed and read this.audioElement, the processor's *)
(* field, when they run.  An element fires timeupdate while it plays and   *)
(* after pause() and the reset of currentTime in stop(), and ended when    *)
(* playback reaches the end; the events are tasks, delivered after the     *)
(* method that caused them has returned.                                   *)

(* The elements whose listeners are registered. *)
Listening(a) ==
    {i.id : i \in {j \in a.analyserInputs : j.kind = "element"}}

(* The timeupdate listener (App sets onTimeUpdate in its constructor):     *)
(* reading currentTime of null is a TypeError.                             *)
timeupdateThrows(a) == a.audioElement = 0

(* The ended listener of element e. *)
endedListener(a, e) ==
    [a EXCEPT !.isPlaying = FALSE, !.playingElements = @ \ {e}]

EventName(type, e) ==
    IF e = audioElement THEN type ELSE "stale " \o type

ElementTimeUpdate ==
    /\ \E e \in Listening(AudioState) :
          Called(EventName("timeupdate", e), timeupdateThrows(AudioState))
    /\ Becomes(AudioState)
    /\ UNCHANGED <<destinations, ops, calls, apDestroyed, restOfModel>>

(* ended comes from an element that plays, or from one detached since the  *)
(* event was queued.                                                       *)
ElementEnded ==
    /\ \E e \in Listening(AudioState) :
          /\ e \in playingElements \/ e # audioElement
          /\ Becomes(endedListener(AudioState, e))
          /\ Called(EventName("ended", e), FALSE)
    /\ UNCHANGED <<destinations, ops, calls, apDestroyed, restOfModel>>

EventsNext ==
    \/ loadFile \/ startMicrophone \/ GetUserMediaSettles
    \/ play \/ pause \/ AudioStop
    \/ ElementTimeUpdate \/ ElementEnded

SpecEvents == InitControls /\ [][EventsNext]_vars

-----------------------------------------------------------------------------
(* Specification of the band split: the analyser delivers a spectrum, the  *)
(* AudioProcessor's sensitivity is set, getFrequencyBands is called.       *)

BandLevels == {0, 100, 255}
BandSpectra == {Shape(l, m, h) : l \in BandLevels, m \in BandLevels,
                                 h \in BandLevels}
AudioSensitivities == {50, 100, 200}

ReadBands ==
    /\ \E raw \in BandSpectra :
          /\ frequencyData' = getFrequencyData(raw, audioSensitivity)
          /\ bandsResult' = getFrequencyBands(frequencyData')
    /\ UNCHANGED <<clockVars, settings, beyondClock, audioSensitivity,
                   currentVisualization, revision, particles, ringParticles,
                   orbitParticles, clouds, lastBassHit, onsetAt, onsetGap,
                   smoothedData, peakData, peakVelocity,
                   observerVars,
                   surfaceVars>>

(* AudioProcessor.updateSettings({ sensitivity }) *)
SetAudioSensitivity ==
    /\ \E x \in AudioSensitivities : audioSensitivity' = x
    /\ UNCHANGED <<clockVars, settings, beyondClock, frequencyData,
                   bandsResult, currentVisualization, revision, particles,
                   ringParticles, orbitParticles, clouds, lastBassHit,
                   onsetAt, onsetGap, smoothedData, peakData, peakVelocity,
                   observerVars,
                   surfaceVars>>

BandsNext == ReadBands \/ SetAudioSensitivity

SpecBands == Init /\ [][BandsNext]_vars

-----------------------------------------------------------------------------
(* Specification of the particle pools: one of the four renderers that     *)
(* keep a pool is shown and ticks at a high frame rate, with the spectrum  *)
(* silent or at full scale, at normal or top animation speed.              *)

PoolSubjects == {"particles", "circular", "cloud", "bars"}
PoolGaps == {5}
PoolSpeeds == {500}
Chances == [roll : BOOLEAN, deaths : {"none", "half", "all"},
            strict : BOOLEAN]

(* The bar renderer and the particle field, whose state keeps the history *)
(* of the spectra, are driven at full scale, where they spawn the most.    *)
PoolSpectra(v) ==
    IF v \in {"bars", "particles"}
    THEN {Level(255)}
    ELSE {Level(0), Level(255)}

InitPools ==
    /\ InitApp(TRUE, MaxNow)
    /\ InitVisualizers
    /\ InitAudio({"running"})
    /\ InitFrames(PoolSubjects, {"later"})

(* Chance in three moods: everything spawns and nothing dies; nothing    *)
(* spawns and half the pool dies; everything spawns and half dies.  The   *)
(* canvas rejects the glow colour in the second only.                      *)
PoolChances ==
    {[roll |-> TRUE, deaths |-> "none", strict |-> FALSE],
     [roll |-> FALSE, deaths |-> "half", strict |-> TRUE],
     [roll |-> TRUE, deaths |-> "half", strict |-> FALSE]}

(* Playback begins: the App starts the visualizer shown. *)
PoolStart ==
    /\ ~isRunning[currentVisualization]
    /\ \E raw \in PoolSpectra(currentVisualization), r \in PoolChances :
           StartShown(raw, r)
PoolFrame ==
    \E c \in rafQueue, d \in PoolGaps, r \in PoolChances :
        \E raw \in PoolSpectra(c.viz) : FrameShown(c, d, raw, r)
(* The speed slider is moved to the top before playback begins. *)
PoolSpeed ==
    /\ ~isRunning[currentVisualization]
    /\ lastWrite[1] = "none"
    /\ \E x \in PoolSpeeds : SpeedShown(x)

PoolsNext == PoolStart \/ PoolFrame \/ PoolSpeed

SpecPools == InitPools /\ [][PoolsNext]_vars

-----------------------------------------------------------------------------
(* Specification of the bucketing: the FFT size and the bar renderer's bar *)
(* count and sensitivity are set from the settings panel, and              *)
(* getProcessedData is called on flat and on uneven spectra.               *)

FftSizes == {256, 512, 2048}
BucketWrites == {[k \in {"barCount"} |-> x] : x \in {8, 100, 129, 256}}
                   \cup {[k \in {"sensitivity"} |-> 250]}

Uneven(n) == [i \in 1..n |-> (i * 37) % 256]

BucketSpectra(n) == {[i \in 1..n |-> 0], [i \in 1..n |-> 255], Uneven(n)}

InitBuckets ==
    /\ InitApp(TRUE, MaxNow)
    /\ InitVisualizers
    /\ InitAudio({"running"})
    /\ InitFrames({"bars"}, {"later"})

SelectFftSize == \E n \in FftSizes : SetFftSize(n)

WriteBucketSettings ==
    /\ \E w \in BucketWrites : SettingsWrite("bars", w)
    /\ UNCHANGED frameVars

ReadBuckets ==
    \E raw \in BucketSpectra(fftSize \div 2) : ReadProcessed("bars", raw)

BucketsNext == SelectFftSize \/ WriteBucketSettings \/ ReadBuckets

SpecBuckets == InitBuckets /\ [][BucketsNext]_vars

-----------------------------------------------------------------------------
(* Specification of one bucket's smoothing: the bucket starts at one of    *)
(* several values, below, at or above its input, and every frame applies   *)
(* the renderer's smoothing step with the input unchanged.  The factor is  *)
(* the bar renderer's or the circular renderer's.                          *)

SmoothFrames == 100
SmoothFactors == {25, 15}
SmoothValues == {0, 1, 5, 1000, 127500, 255000, 1275000}

InitSmooth ==
    /\ InitStores(TRUE, MaxNow)
    /\ recorderTypes = MimeTypes
    /\ bucket \in [smoothed : SmoothValues, input : SmoothValues,
                    factor : SmoothFactors, held : {0}]
    /\ InitVisualizers
    /\ InitAudio({"running"})
    /\ InitFrames({"bars"}, {"later"})

(* One frame's update of the bucket. *)
HoldFrame ==
    /\ bucket.held < SmoothFrames
    /\ bucket' = [bucket EXCEPT
                     !.smoothed = SmoothStep(@, bucket.input, bucket.factor),
                     !.held = @ + 1]
    /\ UNCHANGED <<clockVars, settings, lastWrite, audioVars, theme,
                   currentTheme, visualizerSettings, appReady, exportFormat,
                   mimeType, recorderTypes, fftSize, processed, horizon,
                   capture, frameVars>>

SmoothNext == HoldFrame

SpecSmooth == InitSmooth /\ [][SmoothNext]_vars

-----------------------------------------------------------------------------
(* Specification of two instances side by side: a renderer with a pool     *)
(* ticks as above, at a lower frame rate, and every frame is also handed   *)
(* to a second instance of its class in the same state.                    *)

TwinHorizon == 60
TwinGaps == {10}

InitTwin ==
    /\ InitApp(TRUE, TwinHorizon)
    /\ InitVisualizers
    /\ InitAudio({"running"})
    /\ InitRenderers(PoolSubjects, {"later"})
    /\ InitSurface(Box(640, 480))
    /\ InitObserver(1)

TwinStart ==
    /\ ~isRunning[currentVisualization]
    /\ \E raw \in PoolSpectra(currentVisualization), r \in PoolChances :
           StartShown(raw, r)
TwinFrame ==
    \E c \in rafQueue, d \in TwinGaps, r \in PoolChances :
        \E raw \in PoolSpectra(c.viz) : FrameShown(c, d, raw, r)

TwinNext == TwinStart \/ TwinFrame

SpecTwin == InitTwin /\ [][TwinNext]_vars

-----------------------------------------------------------------------------
(* Specification of the silent scenario: a fresh renderer with a pool is   *)
(* started and ticks at 60 frames a second, 16 or 17 ms apart, at          *)
(* animation speed 1.0, on a spectrum that is zero in every bin.           *)

SilenceHorizon == 150
ScenarioGaps == {16, 17}
SilentSpectra == {Level(0)}

InitSilence ==
    /\ InitApp(TRUE, SilenceHorizon)
    /\ InitVisualizers
    /\ InitAudio({"running"})
    /\ InitRenderers(PoolSubjects, {"later"})
    /\ InitSurface(Box(640, 480))
    /\ InitObserver(120)

SilenceStart ==
    /\ ~isRunning[currentVisualization]
    /\ \E raw \in SilentSpectra, r \in PoolChances : StartShown(raw, r)
SilenceFrame ==
    \E c \in rafQueue, d \in ScenarioGaps, raw \in SilentSpectra,
       r \in PoolChances : FrameShown(c, d, raw, r)

SilenceNext == SilenceStart \/ SilenceFrame

SpecSilence == InitSilence /\ [][SilenceNext]_vars

-----------------------------------------------------------------------------
(* Specification of the steady-bass scenario: a fresh particle field is    *)
(* started and ticks at 60 frames a second, 16 or 17 ms apart, at          *)
(* animation speed 1.0, with every bin of the spectrum at 255.             *)

SteadyHorizon == 1100
SteadySpectra == {Level(255)}
SteadyChances == {r \in Chances : r.deaths = "half" /\ ~r.strict /\ r.roll}

InitSteady ==
    /\ InitApp(TRUE, SteadyHorizon)
    /\ InitVisualizers
    /\ InitAudio({"running"})
    /\ InitRenderers({"particles"}, {"later"})
    /\ InitSurface(Box(640, 480))
    /\ InitObserver(60)

SteadyStart ==
    /\ ~isRunning[currentVisualization]
    /\ \E raw \in SteadySpectra, r \in SteadyChances : StartShown(raw, r)
(* The callback after n ticks comes n / 60 s after the first, to the     *)
(* millisecond before or after.                                            *)
OnCadence(t) ==
    /\ 60 * t >= 1000 * observed.ticks - 60
    /\ 60 * t <= 1000 * observed.ticks + 60
SteadyFrame ==
    \E c \in rafQueue, d \in ScenarioGaps, raw \in SteadySpectra,
       r \in SteadyChances :
          /\ OnCadence(now + d - lastStartAt[c.viz])
          /\ FrameShown(c, d, raw, r)

SteadyNext == SteadyStart \/ SteadyFrame

SpecSteady == InitSteady /\ [][SteadyNext]_vars

-----------------------------------------------------------------------------
(* Specification of repeated settings writes: the bar renderer ticks on    *)
(* spectra at two levels while bar counts and sensitivities, in and out    *)
(* of range, are written to it, each possibly twice running.               *)

RewriteHorizon == 80
RewriteGaps == {40}
RewriteSpectra == {Level(255)}
Rewrites == {[k \in {"barCount"} |-> 4], [k \in {"sensitivity"} |-> 700]}
               \cup {[sensitivity |-> 100, animationSpeed |-> 100,
                       barCount |-> 32, barSpacing |-> 2]}

InitRewrite ==
    /\ InitApp(TRUE, RewriteHorizon)
    /\ InitVisualizers
    /\ InitAudio({"running"})
    /\ InitRenderers({"bars"}, {"later"})
    /\ InitSurface(Box(640, 480))
    /\ InitObserver(1)

RewriteStart ==
    /\ ~isRunning[currentVisualization]
    /\ \E raw \in RewriteSpectra, r \in SteadyChances : StartShown(raw, r)
RewriteFrame ==
    \E c \in rafQueue, d \in RewriteGaps, raw \in RewriteSpectra,
       r \in SteadyChances : FrameShown(c, d, raw, r)
(* At most two writes between frames. *)
Rewrite ==
    /\ IF Len(trail) < 2
       THEN TRUE
       ELSE "frame" \in {trail[Len(trail)].op, trail[Len(trail) - 1].op}
    /\ \E w \in Rewrites : WriteShown(w)

RewriteNext == RewriteStart \/ RewriteFrame \/ Rewrite

SpecRewrite == InitRewrite /\ [][RewriteNext]_vars

-----------------------------------------------------------------------------
(* Specification of resizing: a renderer ticks while its container takes   *)
(* sizes with and without area, with and without a resize event reaching   *)
(* the visualizers' listeners.                                             *)

ResizeHorizon == 60
ResizeGaps == {20}
ResizeSubjects == {"bars", "particles", "cloud", "3d"}
ResizeContainers ==
    {Box(0, 0), Box(640, 480), Box(30, 50),
     [clientWidth |-> 0, clientHeight |-> 100,
      offsetWidth |-> 0, offsetHeight |-> 100],
     [clientWidth |-> 0, clientHeight |-> 0,
      offsetWidth |-> 4, offsetHeight |-> 4]}
ResizeSpectra == {Level(0), Level(255)}

InitResize ==
    /\ InitApp(TRUE, ResizeHorizon)
    /\ InitVisualizers
    /\ InitAudio({"running"})
    /\ InitRenderers(ResizeSubjects, {"later"})
    /\ InitObserver(0)
    /\ \E c \in ResizeContainers : InitSurface(c)

ResizeStart ==
    /\ ~isRunning[currentVisualization]
    /\ \E raw \in ResizeSpectra, r \in PoolChances : StartShown(raw, r)
ResizeFrame ==
    \E c \in rafQueue, d \in ResizeGaps, raw \in ResizeSpectra,
       r \in PoolChances : FrameShown(c, d, raw, r)
(* The window is resized: the container takes size c and the listeners of  *)
(* the visualizers and of the App run handleResize.                        *)
WindowResize ==
    \E c \in ResizeContainers :
        /\ container' = c
        /\ HandleResize
        /\ UNCHANGED <<clockVars, settings, beyondClock,
                       currentVisualization, rendererVars, observerVars>>
(* The page's layout gives the container size c; no resize event fires. *)
LayoutChange ==
    \E c \in ResizeContainers :
        /\ container' = c
        /\ UNCHANGED <<clockVars, settings, beyondClock,
                       currentVisualization, rendererVars, observerVars,
                       canvasSize, size, sized, flowGrid, terrain, show>>

ResizeNext == ResizeStart \/ ResizeFrame \/ WindowResize \/ LayoutChange

SpecResize == InitResize /\ [][ResizeNext]_vars

-----------------------------------------------------------------------------
(* The exporter and the App's export handlers.  capture holds              *)
(*   isExporting, recordedChunks  the exporter's fields, a chunk standing  *)
(*                    for the recording it was cut from;                   *)
(*   recorder, recording  the recording this.mediaRecorder belongs to, 0   *)
(*                    if there is none, and whether its state is           *)
(*                    "recording";                                         *)
(*   exports          how many times startExport has started a recording;  *)
(*   timers           the App's pending progress intervals and auto-stop   *)
(*                    timeouts, each with the export that set it;          *)
(*   events           the recorders' events queued and not yet delivered;  *)
(*   gif, gifs        the frames exportAsGif has still to capture, -1      *)
(*                    when it is not running, and how often it has run;    *)
(*   finishes, stopped, cancelled, blobs  what has happened: the export    *)
(*                    whose timer made each finishExport call, which       *)
(*                    export's timer stopped which recording, the          *)
(*                    recordings cancelled, and the blobs produced.        *)

ProgressPeriod == 100
ExportDurations == {200}
MaxExports == 2
GifFrameCount == 2
MaxGifExports == 1

everythingButCapture ==
    <<clockVars, settings, lastWrite, audioVars, theme, currentTheme,
      visualizerSettings, appReady, exportFormat, mimeType, recorderTypes,
      fftSize, processed, horizon, bucket>>

(* MediaRecorder.stop(): the state is "inactive" at once, and the last     *)
(* data and the stop event are queued; handler is the export whose         *)
(* finishExport set onstop, 0 if none did.                                 *)
RecorderStop(c, handler) ==
    [c EXCEPT !.recording = FALSE,
              !.events = @ \o <<[type |-> "data", recording |-> c.recorder],
                                [type |-> "stop", recording |-> c.recorder,
                                 handler |-> handler]>>]

(* VideoExporter.startRecording, from App.startExport, and the two timers  *)
(* startExport sets for an audio duration of d ms.                         *)
startExport(c, d) ==
    LET e == c.exports + 1
    IN  [c EXCEPT !.isExporting = TRUE,
                  !.recordedChunks = {},
                  !.recorder = e,
                  !.recording = TRUE,
                  !.exports = e,
                  !.timers = @ \cup
                      {[kind |-> "interval", export |-> e, start |-> now,
                        duration |-> d, due |-> now + ProgressPeriod],
                       [kind |-> "timeout", export |-> e, start |-> now,
                        duration |-> d, due |-> now + d]}]

(* VideoExporter.stopRecording *)
stopRecording(c, e) ==
    IF c.recorder = 0 \/ ~c.recording
    THEN [c EXCEPT !.isExporting = FALSE]
    ELSE [RecorderStop(c, e) EXCEPT !.stopped = @ \cup {<<e, c.recorder>>}]

(* App.finishExport up to its await, called by a timer of export e. *)
finishExport(c, e) ==
    stopRecording([c EXCEPT !.finishes = Append(@, e)], e)

(* VideoExporter.cancelRecording *)
cancelRecording(c) ==
    LET halted == IF c.recorder # 0 /\ c.recording
                  THEN [RecorderStop(c, 0) EXCEPT
                           !.cancelled = @ \cup {c.recorder}]
                  ELSE c
    IN  [halted EXCEPT !.isExporting = FALSE, !.recordedChunks = {}]

(* The callback of a timer t that is due. *)
timerFires(c, t) ==
    IF t.kind = "interval"
    THEN IF now - t.start >= t.duration
         THEN finishExport([c EXCEPT !.timers = @ \ {t}], t.export)
         ELSE [c EXCEPT !.timers = (@ \ {t}) \cup
                           {[t EXCEPT !.due = @ + ProgressPeriod]}]
    ELSE finishExport([c EXCEPT !.timers =
                          {u \in @ : u.export # t.export}], t.export)

(* An event of a recorder is delivered: ondataavailable pushes the chunk   *)
(* onto this.recordedChunks when it is not empty, onstop, where set,       *)
(* builds the blob from this.recordedChunks and clears them.               *)
eventDelivered(c, nonEmpty) ==
    LET ev == Head(c.events)
        rest == [c EXCEPT !.events = Tail(@)]
    IN  IF ev.type = "data"
        THEN IF nonEmpty
             THEN [rest EXCEPT !.recordedChunks = @ \cup {ev.recording}]
             ELSE rest
        ELSE IF ev.handler = 0
             THEN rest
             ELSE [rest EXCEPT !.isExporting = FALSE,
                               !.recordedChunks = {},
                               !.blobs = @ \cup
                                   {[recording |-> ev.recording,
                                     chunks |-> c.recordedChunks]}]

CaptureStep(after) ==
    /\ capture' = after
    /\ UNCHANGED <<everythingButCapture, frameVars>>

StartExport ==
    /\ ~capture.isExporting
    /\ capture.gif = -1
    /\ capture.exports < MaxExports
    /\ \E d \in ExportDurations : CaptureStep(startExport(capture, d))
CancelExport ==
    /\ capture.isExporting
    /\ capture.gif = -1
    /\ CaptureStep(cancelRecording(capture))
TimerFires ==
    \E t \in capture.timers :
        /\ t.due <= now
        /\ CaptureStep(timerFires(capture, t))
(* The recorder cuts a chunk, every 100 ms of its recording. *)
RecorderData ==
    /\ capture.recording
    /\ capture.recorder \notin capture.recordedChunks
    /\ CaptureStep([capture EXCEPT
                        !.recordedChunks = @ \cup {capture.recorder}])
EventDelivered ==
    /\ capture.events # <<>>
    /\ \E nonEmpty \in BOOLEAN :
           CaptureStep(eventDelivered(capture, nonEmpty))

(* VideoExporter.exportAsGif up to its first frame. *)
ExportAsGif ==
    /\ ~capture.isExporting
    /\ capture.gif = -1
    /\ capture.gifs < MaxGifExports
    /\ CaptureStep([capture EXCEPT !.isExporting = TRUE,
                                   !.gifs = @ + 1,
                                   !.gif = GifFrameCount])
(* One round of its loop: visualizer.draw(1 / fps), then the capture. *)
GifFrame(raw, r) ==
    /\ capture.gif > 0
    /\ capture' = IF currentVisualization = "bars" /\ BarsThrows(raw, r)
                  THEN [capture EXCEPT !.gif = -1, !.isExporting = FALSE]
                  ELSE [capture EXCEPT !.gif = @ - 1]
    /\ Drawn(currentVisualization, raw, r)
    /\ UNCHANGED everythingButCapture
GifDone ==
    /\ capture.gif = 0
    /\ CaptureStep([capture EXCEPT !.gif = -1, !.isExporting = FALSE])

-----------------------------------------------------------------------------
(* Specification of capture: the bar renderer ticks every 100 ms while     *)
(* exports are started, cancelled and run out, and frames are captured     *)
(* for a GIF.                                                              *)

CaptureHorizon == 300
CaptureGaps == {100}
CaptureSpectra == {Level(255)}
CaptureChances == SteadyChances

InitCapture ==
    /\ InitApp(TRUE, CaptureHorizon)
    /\ InitVisualizers
    /\ InitAudio({"running"})
    /\ InitFrames({"bars"}, {"later"})

CaptureStart ==
    /\ ~isRunning[currentVisualization]
    /\ \E raw \in CaptureSpectra, r \in CaptureChances : StartShown(raw, r)
(* Time does not pass a timer that is due. *)
CaptureFrame ==
    \E c \in rafQueue, d \in CaptureGaps, raw \in CaptureSpectra,
       r \in CaptureChances :
          /\ \A t \in capture.timers : t.due >= now + d
          /\ FrameShown(c, d, raw, r)
CaptureGif ==
    \E raw \in CaptureSpectra, r \in CaptureChances : GifFrame(raw, r)

CaptureNext ==
    \/ CaptureStart \/ CaptureFrame
    \/ StartExport \/ CancelExport \/ TimerFires \/ RecorderData
    \/ EventDelivered
    \/ ExportAsGif \/ CaptureGif \/ GifDone

SpecCapture == InitCapture /\ [][CaptureNext]_vars

-----------------------------------------------------------------------------
(* The App's playback handlers as far as they start and stop visualizers.  *)
(* draw() enters by its outcome o, as in the frame clock's specification;  *)
(* what the AudioProcessor does in them is followed in the audio           *)
(* specifications.                                                         *)

(* The clock as a handler finds it. *)
stopsNothing(old) ==
    [run |-> isRunning, ids |-> animationId, queue |-> rafQueue]

stopsCurrent_keepsRunning(old) ==
    [run |-> isRunning,
     ids |-> [animationId EXCEPT ![old] = 0],
     queue |-> IF animationId[old] # 0
               THEN {c \in rafQueue : c.id # animationId[old]}
               ELSE rafQueue]

(* this.currentVisualizer.stop() within a handler: the running flags, the  *)
(* frame handles and the frame queue after it.                             *)
stopsCurrent(old) ==
    [run |-> [isRunning EXCEPT ![old] = FALSE],
     ids |-> [animationId EXCEPT ![old] = 0],
     queue |-> IF animationId[old] # 0
               THEN {c \in rafQueue : c.id # animationId[old]}
               ELSE rafQueue]

(* this.currentVisualizer.start() for visualizer v when the handler has    *)
(* left the clock as in s (run, ids, queue): nothing if v is running,      *)
(* else the first tick, with deltaTime 0.                                  *)
startsFrom(s, v, o) ==
    IF s.run[v]
    THEN /\ isRunning' = s.run
         /\ animationId' = s.ids
         /\ rafQueue' = s.queue
         /\ drawResult' = "none" /\ tickOf' = "none"
         /\ UNCHANGED <<time, lastFrameTime, ctx, ctxStack, deltaTime,
                        lastTickAt, lastStartAt>>
    ELSE LET pushed == Append(ctxStack, ctx)
             after == IF o[1] = "ok"
                      THEN RestoreCtx(o[2], pushed)
                      ELSE CatchReset(o[2], pushed \o o[3])
             id == FreshId(s.queue)
         IN  /\ Len(ctxStack) + Len(o[3]) < MaxStack
             /\ isRunning' = [s.run EXCEPT ![v] = TRUE]
             /\ lastStartAt' = [lastStartAt EXCEPT ![v] = now]
             /\ deltaTime' = DeltaTime(now, now)
             /\ lastFrameTime' = [lastFrameTime EXCEPT ![v] = now]
             /\ time' = time
             /\ ctx' = after.ctx
             /\ ctxStack' = after.stack
             /\ drawResult' = IF o[1] = "ok" THEN "ok" ELSE "threw"
             /\ animationId' = [s.ids EXCEPT ![v] = id]
             /\ rafQueue' = s.queue \cup {[id |-> id, viz |-> v]}
             /\ tickOf' = v
             /\ lastTickAt' = [lastTickAt EXCEPT ![v] = now]

(* The handler starts no visualizer. *)
startsNone(s) ==
    /\ isRunning' = s.run
    /\ animationId' = s.ids
    /\ rafQueue' = s.queue
    /\ drawResult' = "none" /\ tickOf' = "none"
    /\ UNCHANGED <<time, lastFrameTime, ctx, ctxStack, deltaTime,
                   lastTickAt, lastStartAt>>

restOfShow ==
    <<resizeListener, now, destroyed, audioVars, appVars, rendererVars,
      observerVars, canvasVars>>

(* App.setVisualization(type) *)
ShowSetVisualization(type, o) ==
    IF type \notin Visualizers
    THEN /\ startsNone(stopsNothing(currentVisualization))
         /\ UNCHANGED <<stopped, currentVisualization, settings, show,
                        resizeListener, now, destroyed, beyondClock,
                        rendererVars, observerVars, canvasVars>>
    ELSE LET s == stopsCurrent(currentVisualization)
             starts == show.isPlaying \/ show.currentSource = "mic"
         IN  /\ currentVisualization' = type
             /\ theme' = [theme EXCEPT ![type] = setTheme(@, currentTheme)]
             /\ settings' = [settings EXCEPT
                                ![type] = updateSettings(@, visualizerSettings)]
             /\ visualizerSettings' = ClampInPlace(visualizerSettings)
             /\ lastWrite' = <<type, ClampInPlace(visualizerSettings)>>
             /\ IF starts THEN startsFrom(s, type, o) ELSE startsNone(s)
             /\ stopped' = [[stopped EXCEPT ![currentVisualization] = TRUE]
                               EXCEPT ![type] = IF starts THEN FALSE ELSE @]
             /\ UNCHANGED <<show, resizeListener, now, destroyed, audioVars,
                            currentTheme, appReady, exportFormat, mimeType,
                            recorderTypes, fftSize, processed, horizon,
                            bucket, capture, rendererVars, observerVars,
                            canvasVars>>

(* What a handler does that only starts or stops the visualizer shown. *)
ShowStep(after, s, starts, o) ==
    /\ show' = after
    /\ IF starts
       THEN /\ startsFrom(s, currentVisualization, o)
            /\ stopped' = [stopped EXCEPT ![currentVisualization] = FALSE]
       ELSE /\ startsNone(s)
            /\ stopped' = [stopped EXCEPT ![currentVisualization] =
                               @ \/ ~s.run[currentVisualization]]
    /\ UNCHANGED <<settings, lastWrite, currentVisualization, restOfShow>>

(* App.togglePlay: with the microphone it stops or starts the visualizer   *)
(* shown; with a file it takes what audioProcessor.togglePlay() returns.   *)
ShowTogglePlay(playing, o) ==
    /\ show.audioLoaded \/ show.currentSource = "mic"
    /\ IF show.currentSource = "mic"
       THEN IF show.isPlaying
            THEN ShowStep([show EXCEPT !.isPlaying = FALSE],
                          stopsCurrent(currentVisualization), FALSE, o)
            ELSE ShowStep([show EXCEPT !.isPlaying = TRUE],
                          stopsNothing(currentVisualization), TRUE, o)
       ELSE ShowStep([show EXCEPT !.isPlaying = playing],
                     stopsNothing(currentVisualization), FALSE, o)

(* App.loadAudioFile and App.startMicrophone up to their await: App.stop(). *)
ShowBegins(kind, o) ==
    /\ kind \notin show.pending
    /\ ShowStep([show EXCEPT !.isPlaying = FALSE, !.pending = @ \cup {kind}],
                stopsNothing(currentVisualization), FALSE, o)

(* App.loadAudioFile from its await on; ok: loadFile resolved. *)
ShowFileLoaded(ok, o) ==
    /\ "file" \in show.pending
    /\ IF ok
       THEN ShowStep([show EXCEPT !.pending = @ \ {"file"},
                                  !.audioLoaded = TRUE,
                                  !.currentSource = "file",
                                  !.isPlaying = TRUE],
                     stopsNothing(currentVisualization), TRUE, o)
       ELSE ShowStep([show EXCEPT !.pending = @ \ {"file"}],
                     stopsNothing(currentVisualization), FALSE, o)

(* App.startMicrophone from its await on; ok: the stream was granted. *)
ShowMicrophoneStarted(ok, o) ==
    /\ "mic" \in show.pending
    /\ IF ok
       THEN ShowStep([show EXCEPT !.pending = @ \ {"mic"},
                                  !.currentSource = "mic",
                                  !.audioLoaded = FALSE,
                                  !.isPlaying = TRUE],
                     stopsNothing(currentVisualization), TRUE, o)
       ELSE ShowStep([show EXCEPT !.pending = @ \ {"mic"}],
                     stopsNothing(currentVisualization), FALSE, o)

-----------------------------------------------------------------------------
(* Specification of the App's playback: visualizations are switched, files *)
(* loaded, the microphone started and playback toggled in any order, the   *)
(* awaits resuming at any later moment, while frame callbacks run.         *)

ShowHorizon == 80
ShowGaps == {40}
ShowTypes == {"bars", "waveform", "3d", "spiral"}

InitShow ==
    /\ InitApp(TRUE, ShowHorizon)
    /\ InitVisualizers
    /\ InitAudio({"running"})
    /\ InitFrames({"bars"}, {"later"})

SwitchShown ==
    \E type \in ShowTypes, o \in ClockOutcomes : ShowSetVisualization(type, o)
TogglePlay ==
    \E playing \in BOOLEAN, o \in ClockOutcomes : ShowTogglePlay(playing, o)
LoadAudioFile == \E o \in ClockOutcomes : ShowBegins("file", o)
StartMicrophone == \E o \in ClockOutcomes : ShowBegins("mic", o)
FileLoaded ==
    \E ok \in BOOLEAN, o \in ClockOutcomes : ShowFileLoaded(ok, o)
MicrophoneStarted ==
    \E ok \in BOOLEAN, o \in ClockOutcomes : ShowMicrophoneStarted(ok, o)
ShowFrame ==
    /\ \E c \in rafQueue, d \in ShowGaps, o \in ClockOutcomes :
           animate(c, d, o)
    /\ UNCHANGED frameVars

ShowNext ==
    \/ SwitchShown \/ TogglePlay \/ LoadAudioFile \/ StartMicrophone
    \/ FileLoaded \/ MicrophoneStarted \/ ShowFrame

SpecShow == InitShow /\ [][ShowNext]_vars

-----------------------------------------------------------------------------
(* Specification of the bass-onset detector: the particle field, in either *)
(* revision, ticks at two frame gaps and three animation speeds with the   *)
(* bass silent or held at full scale.                                      *)

OnsetGaps == {40, 130}
OnsetSpeeds == {10, 100, 500}
OnsetSpectra == {Level(0), Level(255)}
OnsetChances == {r \in Chances : r.deaths = "all" /\ ~r.strict /\ r.roll}

InitOnset ==
    /\ InitApp(TRUE, MaxNow)
    /\ InitVisualizers
    /\ InitAudio({"running"})
    /\ InitFrames({"particles"}, {"earlier", "later"})

OnsetStart == \E raw \in OnsetSpectra, r \in OnsetChances : StartShown(raw, r)
OnsetFrame ==
    \E c \in rafQueue, d \in OnsetGaps, raw \in OnsetSpectra,
       r \in OnsetChances : FrameShown(c, d, raw, r)
OnsetSpeed == \E x \in OnsetSpeeds : SpeedShown(x)
OnsetNext == OnsetStart \/ OnsetFrame \/ OnsetSpeed

SpecOnset == InitOnset /\ [][OnsetNext]_vars

-----------------------------------------------------------------------------
(* Specification of the bar smoothing: the bar renderer, in either         *)
(* revision, ticks on spectra at four levels.                              *)

BarGaps == {40}
BarSpectra == {Level(0), Level(30), Level(100), Level(255)}
BarChances == {r \in Chances : r.deaths = "half" /\ r.strict /\ r.roll}

InitBars ==
    /\ InitApp(TRUE, MaxNow)
    /\ InitVisualizers
    /\ InitAudio({"running"})
    /\ InitFrames({"bars"}, {"earlier", "later"})

BarsStart == \E raw \in BarSpectra, r \in BarChances : StartShown(raw, r)
BarsFrame ==
    \E c \in rafQueue, d \in BarGaps, raw \in BarSpectra, r \in BarChances :
        FrameShown(c, d, raw, r)

BarsNext == BarsStart \/ BarsFrame

SpecBars == InitBars /\ [][BarsNext]_vars

-----------------------------------------------------------------------------
(* Specification of the App's stores: initialisation with the settings    *)
(* controls at their defaults or moved, then theme selections, settings    *)
(* writes and visualization switches in any order.                         *)

ThemeInputs == {"fire", "ocean", "plasma"}
UiValues ==
    {DefaultSettings,
     [DefaultSettings EXCEPT !.sensitivity = 150],
     [DefaultSettings EXCEPT !.barCount = 128, !.barSpacing = 4]}
AppWrites ==
    {[k \in {"sensitivity"} |-> 1000], [k \in {"sensitivity"} |-> 100],
     [k \in {"animationSpeed"} |-> 5], [k \in {"barCount"} |-> 257],
     [k \in {"barSpacing"} |-> 0]}
VisualizationInputs == {"bars", "circular", "particles", "spiral"}

InitAppStores ==
    /\ InitApp(FALSE, MaxNow)
    /\ InitVisualizers
    /\ InitAudio({"running"})
    /\ InitFrames({"bars"}, {"later"})

Initialise == \E ui \in UiValues : AppInit(ui)
SelectTheme == \E name \in ThemeInputs : AppSetTheme(name)
WriteSettings == \E w \in AppWrites : AppUpdateVisualizerSettings(w)
SwitchVisualization == \E type \in VisualizationInputs : AppSetVisualization(type)

AppNext == Initialise \/ SelectTheme \/ WriteSettings \/ SwitchVisualization

SpecApp == InitAppStores /\ [][AppNext]_vars

-----------------------------------------------------------------------------
(* Specification of the exporter's type negotiation: a browser whose       *)
(* recorder supports one of several sets of types, format selections and   *)
(* calls of getSupportedMimeType.                                          *)

ExportFormats == {"mp4", "webm", "gif", "avi", "constructor"}

SupportSets ==
    {{}, MimeTypes, {"video/webm"}, {"video/mp4", "video/webm"},
     {"video/webm;codecs=vp8,opus", "video/webm;codecs=vp8", "video/webm"},
     {"video/webm;codecs=h264", "video/webm;codecs=vp9"},
     {"video/mp4;codecs=avc1", "video/webm;codecs=vp9,opus"},
     {"video/webm;codecs=vp8"}}

InitExport ==
    /\ InitStores(TRUE, MaxNow)
    /\ recorderTypes \in SupportSets
    /\ bucket = IdleBucket
    /\ InitVisualizers
    /\ InitAudio({"running"})
    /\ InitFrames({"bars"}, {"later"})

SelectFormat == \E format \in ExportFormats : ExportSetFormat(format)

ExportNext == SelectFormat \/ ExportGetMimeType

SpecExport == InitExport /\ [][ExportNext]_vars

----------------------------------------------------------------------------
(* C1.  After stop() or destroy() has returned on a visualizer, no tick    *)
(* body runs for it until start() is called again, also when a frame       *)
(* callback was queued at the moment of the call; after destroy() the      *)
(* visualizer's resize handler is not registered.                          *)
C1_NoTickAfterStop ==
    \A v \in Visualizers :
        /\ stopped[v] => tickOf # v
        /\ destroyed[v] => ~resizeListener[v]

(* A visualizer that ticked, was destroyed with its next frame queued, and *)
(* has since seen more than a frame gap of wall-clock time pass.           *)
C1_Witness ==
    /\ stopped["bars"] /\ destroyed["bars"]
    /\ lastTickAt["bars"] >= 0
    /\ now >= lastTickAt["bars"] + 120

(* C2.  A tick whose draw() threw leaves the context with identity         *)
(* transform, globalAlpha 1 and source-over, leaves isRunning true and     *)
(* has the next frame callback queued, so the next tick runs.              *)
C2_ThrowingFrameRecovers ==
    drawResult = "threw" =>
        /\ ctx = CleanCtx
        /\ isRunning[tickOf]
        /\ animationId[tickOf] # 0
        /\ [id |-> animationId[tickOf], viz |-> tickOf] \in rafQueue

(* A frame callback (not the tick inside start()) whose draw() threw with  *)
(* a helper's saved state still open.                                      *)
C2_Witness ==
    /\ drawResult = "threw"
    /\ lastTickAt["bars"] > lastStartAt["bars"]
    /\ Len(ctxStack) >= 2

(* C3 as stated: on every tick the delta is min(time since the previous    *)
(* tick, 0.1 s).                                                           *)
C3_DeltaSincePreviousTick ==
    [][\A v \in Visualizers :
          (tickOf' = v /\ lastTickAt[v] >= 0) =>
              deltaTime' = Min(now' - lastTickAt[v], DeltaCap)]_vars

(* C3 amended.  On every tick the delta is min(time since the later of the *)
(* previous tick and the last start() that started the loop, 0.1 s),       *)
(* simulation time grows by exactly delta x animationSpeed, which is never *)
(* negative and at most 0.1 s x animationSpeed; no other step changes      *)
(* simulation time.                                                        *)
C3_DeltaSinceTickOrStart ==
    [][\A v \in Visualizers :
          IF tickOf' = v
          THEN /\ deltaTime' =
                    Min(now' - Max(lastTickAt[v], lastStartAt'[v]), DeltaCap)
               /\ time'[v] = time[v] + deltaTime' * settings[v].animationSpeed
               /\ time'[v] >= time[v]
               /\ time'[v] - time[v] <= DeltaCap * settings[v].animationSpeed
               /\ time'[v] - time[v] <= DeltaCap * SpeedMax
          ELSE time'[v] = time[v]]_vars

(* A tick after a stall longer than the cap, at top speed, of a visualizer *)
(* that was started after time had passed.                                 *)
C3_Witness ==
    /\ tickOf = "bars"
    /\ deltaTime = DeltaCap
    /\ settings["bars"].animationSpeed = SpeedMax
    /\ lastStartAt["bars"] > 0
    /\ time["bars"] > DeltaCap * SpeedMax

(* The bound of [lo, hi] nearest to x, or x itself when it lies inside. *)
Nearest(x, lo, hi) == IF x < lo THEN lo ELSE IF x > hi THEN hi ELSE x

-----------------------------------------------------------------------------
(* The source bindings the AudioProcessor holds. *)
Bindings ==
    (IF audioElement # 0 THEN 1 ELSE 0)
    + (IF mediaStream # 0 THEN 1 ELSE 0)
    + (IF source.kind = "buffer" THEN 1 ELSE 0)

(* C5.  Under every interleaving of loadFile, loadBuffer, startMicrophone  *)
(* and stop, the AudioProcessor holds at most one source binding (never an *)
(* audio element together with a microphone stream, nor either with a      *)
(* buffer source), and every source attached earlier is stopped and        *)
(* released: no element but the held one plays, no stream but the held one *)
(* has live tracks, no buffer source but the held one is started.          *)
C5_OneSourceBinding ==
    /\ Bindings <= 1
    /\ playingElements \subseteq {audioElement}
    /\ liveTracks \subseteq {mediaStream}
    /\ startedBuffers \subseteq {source.id}

(* C6.  Once destroy() has been called and every attach call in flight has *)
(* settled, no microphone track is live and no audio context is open.      *)
C6_DestroyReleasesAll ==
    (apDestroyed /\ ops = {}) => (liveTracks = {} /\ openContexts = 0)

-----------------------------------------------------------------------------
(* C7.  After every frame each particle pool is within its cap: the        *)
(* particle field's particles at most maxParticles (600) and its ring      *)
(* particles at most 40, the circular renderer's burst particles at most   *)
(* 80 and orbit particles at most 30, the clouds at most 30, the bar       *)
(* renderer's burst particles at most 100.                                 *)
C7_PoolsWithinCaps ==
    /\ particles["particles"] <= MaxParticles
    /\ ringParticles <= MaxRingParticles
    /\ particles["circular"] <= MaxBurstParticles
    /\ orbitParticles <= MaxOrbitParticles
    /\ clouds <= MaxClouds
    /\ particles["bars"] <= MaxBarParticles

(* The particle field full, after a tick in which a bass onset found it    *)
(* full already.                                                           *)
C7_Witness ==
    /\ particles["particles"] = MaxParticles
    /\ ringParticles = MaxRingParticles
    /\ tickOf = "particles"
    /\ onsetAt = now
    /\ onsetGap > 0

(* C8.  Any two bass onsets of the particle field are more than the        *)
(* refractory interval of elapsed (wall-clock) time apart, 0.12 s and      *)
(* 0.15 s in the earlier revision, whatever the animation speed and with   *)
(* the bass above threshold on every tick.                                 *)
C8_OnsetsApartInElapsedTime ==
    onsetGap >= 0 => onsetGap * 100 > Field.refractory

(* C9.  After the smoothing and peak update of every frame, in both        *)
(* revisions of the bar renderer, every bar's peak is at least its         *)
(* smoothed value.                                                         *)
C9_PeakAtLeastSmoothed ==
    \A i \in DOMAIN smoothedData : peakData[i] >= smoothedData[i]

(* The bins of the high third: from 2 * third to the end. *)
HighWidth(data) == Len(data) - 2 * (Len(data) \div 3)

(* C10.  getFrequencyBands returns, for the low, middle and high third of  *)
(* the bins, the arithmetic mean of the bins of that range, so each of     *)
(* bass, mid and treble lies in [0, 255].                                  *)
C10_BandsAreMeans ==
    LET third == bandsResult.third
    IN  /\ bandsResult.bass = SumRange(frequencyData, 0, third)
        /\ bandsResult.mid = SumRange(frequencyData, third, third * 2)
        /\ bandsResult.treble * HighWidth(frequencyData)
             = SumRange(frequencyData, third * 2, Len(frequencyData)) * third
        /\ \A x \in {bandsResult.bass, bandsResult.mid, bandsResult.treble} :
              0 <= x /\ x <= 255 * third

-----------------------------------------------------------------------------
(* No source is attached: the processor holds no audio element, no buffer  *)
(* source and no microphone stream.                                        *)
NoSourceAttached ==
    /\ audioElement = 0
    /\ source.kind # "buffer"
    /\ mediaStream = 0

sourceFields == <<audioContext, audioElement, mediaStream, source,
                  currentSource, isMicActive, analyserInputs,
                  analyserOutputs, recordingDestination, playingElements,
                  liveTracks, startedBuffers, openContexts, elementVolume,
                  elementTime>>

(* C11.  Called with no source attached, play(), pause(), seek(p) and      *)
(* togglePlay() raise nothing, leave isPlaying false and change no         *)
(* source-related field; setVolume changes the gain value and nothing      *)
(* else.                                                                   *)
C11_ControlsAreNoOps ==
    [][/\ (NoSourceAttached
           /\ lastCall' \in {"play", "pause", "seek", "togglePlay"})
          => (~raised' /\ ~isPlaying' /\ UNCHANGED <<sourceFields, gainValue>>)
       /\ (NoSourceAttached /\ lastCall' = "setVolume")
          => (~raised' /\ UNCHANGED <<sourceFields, isPlaying>>)]_vars

(* C15.  stopAudioStreamRecording leaves the connections from the sources  *)
(* to the analyser and from the analyser to the gain node as they were,    *)
(* and when it has returned no recording destination is connected to the   *)
(* analyser.                                                               *)
C15_OnlyTapsRemoved ==
    [][lastCall' = "stopAudioStreamRecording"
          => /\ analyserInputs' = analyserInputs
             /\ (GainNode \in analyserOutputs') = (GainNode \in analyserOutputs)
             /\ \A n \in analyserOutputs' : n.node # "destination"]_vars

-----------------------------------------------------------------------------
(* The palette the selection of name is to give. *)
PaletteOf(name) ==
    IF name \in ColorSchemes
    THEN [kind |-> "own", name |-> name]
    ELSE [kind |-> "own", name |-> "neon"]

(* C12.  Once a palette has been selected by name, getColors() of every    *)
(* visualizer returns the palette of that name when it is a defined        *)
(* colour scheme, and the default palette (neon) when it is not, whatever  *)
(* palette was active before.                                              *)
C12_UnknownNameGivesDefault ==
    appReady => \A v \in Visualizers : getColors(theme[v]) = PaletteOf(currentTheme)

(* C16.  After App initialisation and any settings writes and              *)
(* visualization switches, all seven visualizers hold, for every settings  *)
(* key, the clamped value of the App's central settings.                   *)
C16_AllInstancesHoldCentral ==
    appReady =>
        \A v \in Visualizers, k \in Keys :
            settings[v][k] = ClampInPlace(visualizerSettings)[k]

-----------------------------------------------------------------------------
(* The preference list the claim names for a format. *)
PreferenceList(format) ==
    IF format \in {"mp4", "webm", "gif"}
    THEN formatTypes[format]
    ELSE formatTypes["webm"]

(* C14.  getSupportedMimeType returns the first entry, in list order, of   *)
(* the preference list of the selected format (the webm list for any other *)
(* format) that the recorder supports, and "video/webm" when it supports   *)
(* none of the list.                                                       *)
C14_FirstSupportedOfList ==
    mimeType.type # "none" =>
        LET list == PreferenceList(mimeType.format)
            hits == {i \in DOMAIN list : list[i] \in recorderTypes}
        IN  IF hits = {}
            THEN mimeType.type = "video/webm"
            ELSE \E i \in hits : /\ mimeType.type = list[i]
                                 /\ \A j \in hits : i <= j

-----------------------------------------------------------------------------
(* The pool of the renderer shown. *)
OwnPool ==
    CASE currentVisualization = "cloud" -> clouds
      [] OTHER -> particles[currentVisualization]

(* C13.  A frame is a function of the renderer's state and its inputs:     *)
(* a second instance of the same class in the same state, given the same   *)
(* delta, spectrum, bands, palette and settings, has the same pool after   *)
(* the frame as this one.                                                  *)
C13_TwinHasSamePool == twin # -1 => twin = OwnPool

-----------------------------------------------------------------------------
SmoothEpsilon == 10    \* 0.01
SettleFrames == 90

Distance(a, b) == IF a >= b THEN a - b ELSE b - a

(* A frame never takes the bucket further from its input nor across it. *)
StepTowardsInput ==
    bucket'.held = bucket.held + 1 =>
        /\ Distance(bucket'.smoothed, bucket.input)
              <= Distance(bucket.smoothed, bucket.input)
        /\ bucket.smoothed <= bucket.input => bucket'.smoothed <= bucket.input
        /\ bucket.smoothed >= bucket.input => bucket'.smoothed >= bucket.input

(* C17.  With the input of a bucket held at a constant value r on every    *)
(* frame, the smoothed value (factor 0.25 or 0.15) never moves away from   *)
(* r, never overshoots r, and after enough frames stays within epsilon     *)
(* of r.                                                                   *)
C17_SmoothingSettles ==
    /\ [][StepTowardsInput]_vars
    /\ [](bucket.held >= SettleFrames =>
             Distance(bucket.smoothed, bucket.input) <= SmoothEpsilon)

(* The bucket has been held for the settling time after starting far away. *)
C17_Witness ==
    /\ bucket.held >= SettleFrames
    /\ bucket.input = 1275000
    /\ bucket.factor = 15
    /\ bucket.smoothed # bucket.input
    /\ bucket.smoothed > 0

-----------------------------------------------------------------------------
(* C18.  For a bar count in [8, 256] and an FFT size in [256, 8192] the    *)
(* number of buckets K is at most the number of bins N, and                *)
(* getProcessedData returns K finite values, bucket i being the            *)
(* sensitivity times the mean of the floor(N / K) contiguous bins from     *)
(* i * floor(N / K) on, every bin read lying inside the spectrum.          *)
C18_BucketsAreMeansOfBins ==
    LET N == Len(processed.data)
        K == processed.count
    IN  (/\ processed.fftSize \in 256..8192
         /\ K \in BarCountMin..BarCountMax) =>
            /\ K <= N
            /\ Len(processed.values) = K
            /\ \A i \in 1..K :
                  /\ processed.values[i] # NaN
                  /\ i * (N \div K) <= N
                  /\ processed.values[i] =
                        (SumRange(processed.data, (i - 1) * (N \div K),
                                  i * (N \div K))
                           * processed.sensitivity * 10) \div (N \div K)

-----------------------------------------------------------------------------
(* C19.  On an all-zero spectrum, over the first 120 ticks of a fresh      *)
(* renderer at animation speed 1.0, no renderer spawns a particle, no bass *)
(* onset is registered, and every smoothed bar value and bar peak stays 0. *)
C19_SilenceSpawnsNothing ==
    observed.ticks \in 1..120 =>
        /\ \A v \in DOMAIN particles : particles[v] = 0
        /\ ringParticles = 0
        /\ orbitParticles = 0
        /\ clouds = 0
        /\ observed.onsets = 0
        /\ onsetAt = -1
        /\ \A i \in DOMAIN smoothedData : smoothedData[i] = 0 /\ peakData[i] = 0

(* C20.  With the bass held at 255 on each of the first 60 ticks of a      *)
(* fresh particle field at animation speed 1.0 and threshold 160, exactly  *)
(* 7 bass onsets are registered over the 60 ticks.                         *)
C20_SevenOnsetsInASecond == observed.ticks = 60 => observed.onsets = 7

(* Sixty ticks on a full-scale bass have been drawn, the last onset long   *)
(* enough ago for the bass to be over the threshold without one.           *)
C20_Witness ==
    /\ observed.ticks = 60
    /\ observed.length = 60
    /\ observed.onsets > 0
    /\ bandsResult.bass > BassThreshold * bandsResult.third
    /\ currentVisualization = "particles"

-----------------------------------------------------------------------------
(* The same update was applied twice running, as events i and i + 1. *)
AppliedTwice(i) ==
    /\ trail[i].op = "write" /\ trail[i + 1].op = "write"
    /\ trail[i].arg = trail[i + 1].arg

(* A bar count was written, a frame drawn, the same bar count written      *)
(* again and another frame drawn: events i to i + 3.                       *)
RewrittenAcrossFrames(i) ==
    /\ trail[i].op = "write" /\ "barCount" \in DOMAIN trail[i].arg
    /\ trail[i + 1].op = "frame"
    /\ trail[i + 2].op = "write" /\ trail[i + 2].arg = trail[i].arg
    /\ trail[i + 3].op = "frame"

(* C21.  Applying the same settings update twice leaves the renderer as    *)
(* applying it once does; after updateSettings({barCount: k}), a frame and *)
(* a second updateSettings({barCount: k}) the following frame does not     *)
(* allocate the smoothed, peak and peak-velocity arrays anew.              *)
C21_RewriteIsIdempotent ==
    /\ \A i \in 1..(Len(trail) - 1) :
          AppliedTwice(i) => trail[i + 1].settings = trail[i].settings
    /\ \A i \in 1..(Len(trail) - 3) :
          RewrittenAcrossFrames(i) => ~trail[i + 3].fresh

(* Both cases have happened: a bar count out of range written twice around *)
(* a frame that allocated the arrays, and smoothed values above 0 kept.    *)
C21_Witness ==
    /\ Len(trail) = 4
    /\ RewrittenAcrossFrames(1)
    /\ trail[2].fresh
    /\ trail[1].arg.barCount = 4
    /\ \E i \in DOMAIN smoothedData : smoothedData[i] > 0

(* C22: whatever sizes the container takes, 0 x 0 among them, width and    *)
(* height of the renderers are strictly positive after every handleResize; *)
(* a tick with the container at zero area ends with the loop going on, its *)
(* next callback queued; and a handleResize that found the container W x H *)
(* with W, H > 0 left the canvas and the renderers W x H, with the frames  *)
(* after it drawing past the size test.                                    *)
ZeroArea(c) == c.clientWidth = 0 \/ c.clientHeight = 0
C22_ResizeKeepsSizePositive ==
    /\ size.width > 0 /\ size.height > 0
    /\ ValidSize(size)
    /\ \A v \in Visualizers :
           tickOf = v /\ ZeroArea(container) =>
               /\ isRunning[v]
               /\ \E c \in rafQueue : c.viz = v /\ c.id = animationId[v]
    /\ ~ZeroArea(sized) =>
           /\ canvasSize = [width |-> sized.clientWidth,
                            height |-> sized.clientHeight]
           /\ size = canvasSize
C22_Witness ==
    /\ ZeroArea(container)
    /\ ~ZeroArea(sized)
    /\ sized = Box(30, 50)
    /\ canvasSize = [width |-> 30, height |-> 50]
    /\ tickOf = currentVisualization
    /\ now > 0

(* C23: a renderer that keeps a flow field has, when a frame reads it, a   *)
(* grid made for the canvas as it is: the particle field's grid, once      *)
(* made, has ceil(width / 20) columns and ceil(height / 20) rows, and the  *)
(* cloud renderer's has ceil(width / 20) + 1 columns and                   *)
(* ceil(height / 20) + 1 rows, so that every position on the canvas falls  *)
(* in a cell.                                                              *)
Ceil20(a) == IF a % 20 = 0 THEN a \div 20 ELSE a \div 20 + 1
InGrid(g, x, y) == x \div 20 < g.cols /\ y \div 20 < g.rows
FrameOf(v) == clockVars' # clockVars /\ tickOf' = v
C23_FlowGridsFollowCanvas ==
    [][/\ FrameOf("cloud") =>
              flowGrid'["cloud"] = [cols |-> Ceil20(size'.width) + 1,
                                    rows |-> Ceil20(size'.height) + 1]
       /\ FrameOf("particles") =>
              /\ flowGrid'["particles"] = [cols |-> Ceil20(size'.width),
                                           rows |-> Ceil20(size'.height)]
              /\ InGrid(flowGrid'["particles"], size'.width - 1,
                        size'.height - 1)]_vars

(* The geometry of BarsVisualizer.draw on a canvas of size s, in           *)
(* thousandths of a pixel, for a smoothed value or peak in thousandths.    *)
BarMaxHeight(s) == s.height * 750
BarBaseY(s) == s.height * 880
BarHeight(smoothed, s) == (((smoothed * 3) \div 4) * s.height) \div 255
BarTop(smoothed, s) == BarBaseY(s) - BarHeight(smoothed, s)
PeakY(peak, s) == BarBaseY(s) - BarHeight(peak, s)

(* C24: in the bar renderer, with sensitivity in [0.1, 5.0], the bar count *)
(* in [8, 256] and every bin in [0, 255], every bar is at most 0.75 of the *)
(* canvas height high, and no bar top and no peak marker is drawn farther  *)
(* from the origin than twice the larger side of the canvas.               *)
FarLimit(s) == 2 * Max(s.width, s.height) * 1000
C24_BarsStayOnCanvas ==
    \A i \in DOMAIN smoothedData :
        /\ BarHeight(smoothedData[i], size) <= BarMaxHeight(size)
        /\ Abs(BarTop(smoothedData[i], size)) <= FarLimit(size)
        /\ Abs(PeakY(peakData[i], size)) <= FarLimit(size)

(* TerrainVisualizer.project: the distance pz from the camera at which the *)
(* row of depth index z, kept at z + 1, is drawn.                          *)
Depth(row) == (row - 1) * 30 + 50
Attenuated(cells) == [x \in DOMAIN cells |-> (cells[x] * 95) \div 100]
FarRow == CHOOSE z \in 1..TerrainDepth :
              \A y \in 1..TerrainDepth : Depth(y) <= Depth(z)

TerrainInRange(t) ==
    \A z \in 1..TerrainDepth, x \in 1..TerrainWidth :
        t[z][x] >= 0 /\ t[z][x] <= MaxTerrainHeight
RowsAttenuate ==
    \A z \in 1..(TerrainDepth - 1) : terrain'[z + 1] = Attenuated(terrain[z])
RowsApproach ==
    \A z \in (1..TerrainDepth) \ {FarRow} :
        \E y \in 1..TerrainDepth :
            Depth(y) > Depth(z) /\ terrain'[z] = Attenuated(terrain[y])

(* C26: through terrain updates and resizes, every cell of the 40 x 60     *)
(* height grid lies in [0, 200]; after a frame the row at depth index      *)
(* z + 1 is the row at z before it, times 0.95; and the row synthesised    *)
(* in the frame is the farthest from the camera, every other row being a   *)
(* row that was farther away, attenuated.                                  *)
C26_TerrainScrollsTowardCamera ==
    [][/\ TerrainInRange(terrain')
       /\ FrameOf("3d") => RowsAttenuate /\ RowsApproach]_vars

(* C25: no operation of the video exporter draws or changes a renderer's   *)
(* state: the state of the renderers changes only in a tick of the frame   *)
(* clock, whether or not an export is running.                             *)
C25_CaptureNeverDrives ==
    [][rendererVars' # rendererVars => clockVars' # clockVars]_vars

(* C30: every export that startExport started is finished at most once; a  *)
(* progress interval or auto-stop timer stops only the recording of the    *)
(* export that set it, never that of a later startExport; and no blob      *)
(* holds a chunk of a recording that was cancelled.                        *)
FinishedOnce ==
    \A e \in 1..capture.exports :
        Cardinality({i \in DOMAIN capture.finishes :
                        capture.finishes[i] = e}) <= 1
OwnRecordingOnly == \A p \in capture.stopped : p[1] = p[2]
NoCancelledChunks ==
    \A b \in capture.blobs : b.chunks \cap capture.cancelled = {}
C30_ExportsEndOnce == FinishedOnce /\ OwnRecordingOnly /\ NoCancelledChunks

(* C28: after every tick, whether draw() returned or threw, and wherever   *)
(* it threw, inside a helper that had called ctx.save() included, the      *)
(* context's stack of saved states is as deep as it was before the tick.   *)
C28_TickBalancesSaves ==
    [][Len(ctxStack') = Len(ctxStack)]_vars

(* C27: at every moment at most one of the App's visualizers is running,   *)
(* and it is the one shown; every visualizer has at most one frame         *)
(* callback pending; whatever the order of setVisualization, togglePlay,   *)
(* loadAudioFile and startMicrophone and of the resumptions after their    *)
(* awaits.                                                                 *)
C27_OnlyTheShownRuns ==
    /\ Cardinality({v \in Visualizers : isRunning[v]}) <= 1
    /\ \A v \in Visualizers : isRunning[v] => v = currentVisualization
    /\ \A v \in Visualizers :
           Cardinality({c \in rafQueue : c.viz = v}) <= 1
(* A file is loading while the microphone is the source, a visualization   *)
(* was switched to while another was running and had ticked, and the one   *)
(* shown now runs with its callback queued.                                *)
C27_Witness ==
    /\ show.currentSource = "mic" /\ "file" \in show.pending
    /\ currentVisualization = "waveform"
    /\ isRunning["waveform"]
    /\ lastTickAt["bars"] > 0
    /\ lastTickAt["waveform"] > lastTickAt["bars"]
    /\ \E c \in rafQueue : c.viz = "waveform"


StaleEvents == {"stale timeupdate", "stale ended"}

(* C29: an event delivered by an audio element that stop() or a new attach *)
(* has detached raises no exception in its listener and leaves isPlaying   *)
(* as it was.                                                              *)
C29_DetachedElementIsSilent ==
    [][lastCall' \in StaleEvents => ~raised' /\ isPlaying' = isPlaying]_vars

=============================================================================
